---- MODULE Spec2Model ----
(***************************************************************************)
(* Model of the Diamond Store admin panel: the two transactions pages      *)
(* (search classifier, auto-refresh, reward display) and the dashboard     *)
(* mutation handlers.                                                      *)
(***************************************************************************)
EXTENDS Integers, Sequences, FiniteSets, TLC

(* ------------------------------------------------------------------ *)
(* Bounds                                                               *)
(* ------------------------------------------------------------------ *)
\* longest search string typed into the search box
MaxLen == 4
\* most /users/transactions/all requests outstanding at one time
MaxOutstanding == 2
\* longest transaction list enumerated for the reward display
MaxTx == 3
\* most dashboard requests outstanding at one time
MaxDashOutstanding == 2
\* most user details requests outstanding at one time
MaxUserOutstanding == 2

(* ------------------------------------------------------------------ *)
(* Strings: sequences of one-character strings                          *)
(* ------------------------------------------------------------------ *)
\* what the admin can type into the search box: digits, the at sign, a
\* character that is a sign when it leads and plain text elsewhere, a blank
Chars == {"0", "1", "@", "+", " "}

IsDigit(c) == c \in {"0", "1"}

DigitVal(c) == IF c = "1" THEN 1 ELSE 0

IsSpace(c) == c = " "

RECURSIVE TrimLeft(_)
TrimLeft(s) ==
  IF s # <<>> /\ IsSpace(Head(s)) THEN TrimLeft(Tail(s)) ELSE s

RECURSIVE TrimRight(_)
TrimRight(s) ==
  IF s # <<>> /\ IsSpace(s[Len(s)])
  THEN TrimRight(SubSeq(s, 1, Len(s) - 1))
  ELSE s

\* String.prototype.trim
Trim(s) == TrimRight(TrimLeft(s))

\* String.prototype.includes for a one-character needle
Includes(s, c) == \E i \in 1..Len(s) : s[i] = c

\* the longest prefix of s made of decimal digits
RECURSIVE DigitPrefix(_)
DigitPrefix(s) ==
  IF s # <<>> /\ IsDigit(Head(s))
  THEN <<Head(s)>> \o DigitPrefix(Tail(s))
  ELSE <<>>

RECURSIVE DigitsValue(_, _)
DigitsValue(acc, s) ==
  IF s = <<>> THEN acc ELSE DigitsValue(acc * 10 + DigitVal(Head(s)), Tail(s))

\* parseInt(s) with no radix: leading white space is skipped, one sign is
\* accepted, then the longest run of digits is read and the rest of the
\* string is ignored; no digit at that place gives NaN.
ParseInt(s) ==
  LET t == TrimLeft(s)
      signed == t # <<>> /\ Head(t) \in {"+", "-"}
      sign == IF signed /\ Head(t) = "-" THEN -1 ELSE 1
      u == IF signed THEN Tail(t) ELSE t
      d == DigitPrefix(u)
  IN  IF d = <<>> THEN [nan |-> TRUE, val |-> 0]
      ELSE [nan |-> FALSE, val |-> sign * DigitsValue(0, d)]

(* ------------------------------------------------------------------ *)
(* State                                                                *)
(* ------------------------------------------------------------------ *)
VARIABLES
  token,           \* the token cookie is present (isAuthenticated())
  serverTx,        \* the transactions the server holds, where they are fixed
  txPage,          \* which transactions page is shown
  txStage,         \* "init", "mounted", "login" (redirected), "unmounted"
  searchQuery,     \* the search box
  txTimers,         \* number of active 2-second intervals
  txLoading,       \* loading flag
  autoRefreshing,  \* auto-refresh spinner flag
  txToast,         \* toast shown on the transactions page
  txOutstanding,   \* number of requests not yet answered, per trigger
  txSent,          \* the request sent by the latest step, or NoRequest
  txEvent,         \* the answer handled by the latest step, or NoTxEvent
  transactions,    \* the list held by the page
  displayAmounts   \* the Amount column as rendered, in hundredths

\* the state of the transactions page
txPageVars == <<serverTx, txPage, txStage, searchQuery, txTimers, txLoading,
                autoRefreshing, txToast, txOutstanding, txSent, txEvent,
                transactions, displayAmounts>>

txVars == <<token, txPageVars>>

VARIABLES
  dashStage,         \* "off", "init", "mounted", "login" (redirected)
  pendingUsers,      \* ids of the users awaiting approval
  approvedUsers,     \* ids of the approved users
  pendingOrders,     \* orders of the pending list
  rejectedOrders,    \* orders of the rejected list
  stats,             \* the four counters of the header cards
  dashLoading,       \* loading flag of the dashboard
  dashToast,         \* toast of the dashboard
  showAddPoints,     \* id of the user whose add-points form is open
  pointsAmount,      \* amount field of the add-points form
  pointsDescription, \* description field of the add-points form
  lastOrderIds,      \* lastOrderIdsRef
  hasLoadedOrders,   \* hasLoadedOrdersRef
  dashOutstanding,   \* kinds of the dashboard requests not yet answered
  dashSent,          \* the request sent by the latest step
  dashEvent          \* the input handled by the latest step

dashVars == <<dashStage, pendingUsers, approvedUsers, pendingOrders,
              rejectedOrders, stats, dashLoading, dashToast, showAddPoints,
              pointsAmount, pointsDescription, lastOrderIds, hasLoadedOrders,
              dashOutstanding, dashSent, dashEvent>>

VARIABLES
  userStage,            \* "off", "init", "mounted", "login" (redirected)
  user,                 \* status of the user shown, "NONE" while null
  userLoading,          \* loading flag of the user details page
  loadingTransactions,  \* loadingTransactions flag
  userTransactions,     \* the transactions of the user shown
  userToast,            \* toast of the user details page
  addPointsReceipt,     \* a receipt is shown
  userOutstanding,      \* handlers of the requests not yet answered
  userSent,             \* the request sent by the latest step
  userEvent             \* the input handled by the latest step

userVars == <<userStage, user, userLoading, loadingTransactions,
              userTransactions, userToast, addPointsReceipt, userOutstanding,
              userSent, userEvent>>

VARIABLES
  repStage,        \* "off", "init", "mounted", "login" (redirected)
  selectedWeek,    \* value of the week dropdown, "" for Current Week
  report,          \* the report shown, NoReport while null
  repLoading,      \* loading flag of the reports page
  repToast,        \* toast of the reports page
  repOutstanding,  \* weekStart of each report request not yet answered
  repSent,         \* the request sent by the latest step
  repEvent,        \* the input handled by the latest step
  repFailed        \* a report request has failed since the page was opened

repVars == <<repStage, selectedWeek, report, repLoading, repToast,
             repOutstanding, repSent, repEvent, repFailed>>

VARIABLES
  annStage,        \* "off", "init", "mounted", "login" (redirected)
  announcements,   \* the announcements held by the page
  annLoading,      \* loading flag of the announcements page
  annToast,        \* toast of the announcements page
  showModal,       \* the create / edit modal is open
  editingId,       \* id of the announcement being edited, NoEdit for null
  annOutstanding,  \* handlers of the requests not yet answered
  annSent,         \* the request sent by the latest step
  annEvent         \* the input handled by the latest step

annVars == <<annStage, announcements, annLoading, annToast, showModal,
             editingId, annOutstanding, annSent, annEvent>>

VARIABLES
  loginStage,        \* "off", "shown"
  loginLoading,      \* loading flag of the login form
  loginError,        \* inline error of the login form, "" for none
  loginOutstanding,  \* number of POST /auth/login not yet answered
  loginEvent,        \* the input handled by the latest step
  lastAuth           \* latest of login and logout: "none", "login", "logout"

loginVars == <<loginStage, loginLoading, loginError, loginOutstanding,
               loginEvent, lastAuth>>

\* the pages besides the transactions, dashboard and user details pages
otherVars == <<repVars, annVars, loginVars>>

vars == <<txVars, dashVars, userVars, otherVars>>

\* the page with the interval timer and the page with the email branch
PageAuto == "auto"
PageEmail == "email"

NoRequest == [trigger |-> "none"]
NoTxEvent == [type |-> "none"]
NoToast == "none"

(* ------------------------------------------------------------------ *)
(* Search classifier                                                    *)
(* ------------------------------------------------------------------ *)
Limit == 500

\* IsShortUserId with the length test off by one
IsShortUserIdTwoDigits(query) ==
  LET numValue == ParseInt(query)
  IN  /\ ~numValue.nan
      /\ Len(query) <= 2
      /\ numValue.val > 0
      /\ numValue.val < 10000

\* IsShortUserId without the length test
IsShortUserIdNoLength(query) ==
  LET numValue == ParseInt(query)
  IN  /\ ~numValue.nan
      /\ numValue.val > 0
      /\ numValue.val < 10000

\* the userId test shared by every variant of the classifier
IsShortUserId(query) ==
  LET numValue == ParseInt(query)
  IN  /\ ~numValue.nan
      /\ Len(query) <= 3
      /\ numValue.val > 0
      /\ numValue.val < 10000

\* params built by the interval callback of the auto-refresh page
TickParams(q) ==
  IF Trim(q) # <<>>
  THEN LET query == Trim(q)
       IN  IF IsShortUserId(query)
           THEN [limit |-> Limit, userId |-> ParseInt(query).val]
           ELSE [limit |-> Limit, idNumber |-> query]
  ELSE [limit |-> Limit]

\* params built by fetchTransactions of the auto-refresh page
FetchParamsAuto(q) ==
  IF Trim(q) # <<>>
  THEN LET query == Trim(q)
       IN  IF IsShortUserId(query)
           THEN [limit |-> Limit, userId |-> ParseInt(query).val]
           ELSE [limit |-> Limit, idNumber |-> query]
  ELSE [limit |-> Limit]

\* params built by fetchTransactions of the page with the email branch
FetchParamsEmail(q) ==
  IF Trim(q) # <<>>
  THEN LET query == Trim(q)
       IN  IF Includes(query, "@")
           THEN [limit |-> Limit, email |-> query]
           ELSE IF IsShortUserId(query)
                THEN [limit |-> Limit, userId |-> ParseInt(query).val]
                ELSE [limit |-> Limit, idNumber |-> query]
  ELSE [limit |-> Limit]

FetchParams(page, q) ==
  IF page = PageEmail THEN FetchParamsEmail(q) ELSE FetchParamsAuto(q)

(* ------------------------------------------------------------------ *)
(* Reward display                                                       *)
(* ------------------------------------------------------------------ *)
\* Amounts and reward figures are decimal numbers held in thousandths;
\* displayed amounts are held in hundredths.
\* A description is a record: present (not null), wsr (the text includes
\* 'Weekly Sale Reward'), reward (the number captured by
\* /Reward:\s*([\d.]+)/, or NoFigure when the pattern does not match).
NoFigure == -1

NullDescription == [present |-> FALSE, wsr |-> FALSE, reward |-> NoFigure]

Figures == {0, 1250, 2506}

Descriptions ==
  {NullDescription}
    \cup {[present |-> TRUE, wsr |-> TRUE, reward |-> f] :
             f \in Figures \cup {NoFigure}}
    \cup {[present |-> TRUE, wsr |-> FALSE, reward |-> 1250]}

UserIds == {1, 2}

\* records of type ADDED with every description, and records of another
\* type whose description reads like a weekly reward
TxRecords ==
  [user_id : UserIds, transaction_type : {"ADDED"},
   amount : {7004}, description : Descriptions]
    \cup [user_id : UserIds, transaction_type : {"DEDUCTED"},
          amount : {7004},
          description : {[present |-> TRUE, wsr |-> TRUE, reward |-> 1250]}]

\* RoundCents cutting the third decimal off instead of rounding
RoundCentsTruncating(milli) == milli \div 10

\* Math.round(x * 100) / 100 with half rounded towards plus infinity
RoundCents(milli) == (milli + 5) \div 10

IsWeeklyReward(t) ==
  /\ t.transaction_type = "ADDED"
  /\ t.description.present
  /\ t.description.wsr

\* PreviousTotalReward without the user_id test
RECURSIVE PreviousTotalRewardAnyUser(_, _, _)
PreviousTotalRewardAnyUser(txs, i, userId) ==
  IF i > Len(txs) THEN 0
  ELSE IF IsWeeklyReward(txs[i]) /\ txs[i].description.reward # NoFigure
       THEN txs[i].description.reward
       ELSE PreviousTotalRewardAnyUser(txs, i + 1, userId)

\* the for loop: the first entry from position i on of the same user that
\* is a weekly reward whose description matches, else 0
RECURSIVE PreviousTotalReward(_, _, _)
PreviousTotalReward(txs, i, userId) ==
  IF i > Len(txs) THEN 0
  ELSE IF /\ txs[i].user_id = userId
          /\ IsWeeklyReward(txs[i])
          /\ txs[i].description.reward # NoFigure
       THEN txs[i].description.reward
       ELSE PreviousTotalReward(txs, i + 1, userId)

\* the body of transactions.map for the row at position index
DisplayAmount(txs, index) ==
  LET transaction == txs[index]
  IN  IF IsWeeklyReward(transaction)
      THEN LET currentTotalReward ==
                 IF transaction.description.reward # NoFigure
                 THEN transaction.description.reward
                 ELSE 0
           IN  IF currentTotalReward > 0
               THEN RoundCents(
                      currentTotalReward
                        - PreviousTotalReward(txs, index + 1,
                                              transaction.user_id))
               ELSE 0
      ELSE RoundCents(transaction.amount)

\* the Amount column of the table
RenderAmounts(txs) == [i \in 1..Len(txs) |-> DisplayAmount(txs, i)]

(* ------------------------------------------------------------------ *)
(* Transactions page: requests                                          *)
(* ------------------------------------------------------------------ *)
\* lists the server may answer with on the transactions page
ServerLists ==
  {<<>>, <<[user_id |-> 1, transaction_type |-> "ADDED", amount |-> 7004,
            description |-> NullDescription]>>}

\* every list of at most MaxTx records
RewardLists == UNION {[1..n -> TxRecords] : n \in 0..MaxTx}

\* api.get(`/users/transactions/all?...`): the request leaves the page
NoneOutstanding == [fetch |-> 0, tick |-> 0]

SendTx(trigger, q, params) ==
  /\ txOutstanding.fetch + txOutstanding.tick < MaxOutstanding
  /\ txSent' = [trigger |-> trigger, query |-> q, params |-> params]
  /\ txOutstanding' = [txOutstanding EXCEPT ![trigger] = @ + 1]

\* the listener or button that called fetchTransactions in the latest step
TxInput(source) == [type |-> "input", source |-> source]

\* fetchTransactions as closed over a render whose searchQuery is q,
\* called by a listener or a button
FetchTransactionsOn(input, q) ==
  /\ txLoading' = TRUE
  /\ SendTx("fetch", q, FetchParams(txPage, q))
  /\ txEvent' = input

\* fetchTransactions as closed over a render whose searchQuery is q
FetchTransactions(q) == FetchTransactionsOn(NoTxEvent, q)

\* the answer to a request of this trigger: the list, or a failure
TxAnswer(trigger, ok, list) ==
  [type |-> "response", trigger |-> trigger, ok |-> ok, list |-> list]

\* the spinner replaces the page while loading with nothing to show
TxInteractive ==
  /\ txStage = "mounted"
  /\ ~(txLoading /\ transactions = <<>>)

\* the cleanup returned by the previous run of the interval effect:
\* clearInterval of the interval that run created
TimersAfterCleanup(n) == IF n > 0 THEN n - 1 ELSE 0

\* the interval effect re-run without the cleanup of its previous run
TimersAfterEffectNoCleanup(n) ==
  n + (IF txPage = PageAuto /\ token THEN 1 ELSE 0)

\* a run of the effect keyed on searchQuery: the cleanup of the previous
\* run, then setInterval unless isAuthenticated() is false
TimersAfterEffect(n) ==
  TimersAfterCleanup(n) + (IF txPage = PageAuto /\ token THEN 1 ELSE 0)

\* first render: the auth gate, the first fetch, the interval and listeners
TxMount ==
  /\ txStage = "init"
  /\ IF ~token
     THEN /\ txStage' = "login"
          /\ UNCHANGED <<token, serverTx, txPage, searchQuery, txTimers,
                         txLoading, autoRefreshing, txToast, txOutstanding,
                         txSent, txEvent, transactions, displayAmounts>>
     ELSE /\ txStage' = "mounted"
          /\ FetchTransactions(searchQuery)
          /\ txTimers' = TimersAfterEffect(txTimers)
          /\ UNCHANGED <<token, serverTx, txPage, searchQuery,
                         autoRefreshing, txToast, transactions,
                         displayAmounts>>
  /\ UNCHANGED <<dashVars, userVars, otherVars>>

\* onChange of the search box: one character typed or deleted
TxType ==
  /\ TxInteractive
  /\ \/ \E c \in Chars :
          /\ Len(searchQuery) < MaxLen
          /\ searchQuery' = Append(searchQuery, c)
     \/ /\ searchQuery # <<>>
        /\ searchQuery' = SubSeq(searchQuery, 1, Len(searchQuery) - 1)
  /\ txTimers' = TimersAfterEffect(txTimers)
  /\ txSent' = NoRequest
  /\ txEvent' = NoTxEvent
  /\ UNCHANGED <<token, serverTx, txPage, txStage, txLoading, autoRefreshing,
                 txToast, txOutstanding, transactions, displayAmounts>>
  /\ UNCHANGED <<dashVars, userVars, otherVars>>

\* handleSearch: the Search button or the Enter key
TxSearch ==
  /\ TxInteractive
  /\ FetchTransactions(searchQuery)
  /\ UNCHANGED <<token, serverTx, txPage, txStage, searchQuery, txTimers,
                 autoRefreshing, txToast, transactions, displayAmounts>>
  /\ UNCHANGED <<dashVars, userVars, otherVars>>

\* the Refresh button, disabled while loading
TxRefresh ==
  /\ TxInteractive
  /\ ~txLoading
  /\ FetchTransactions(searchQuery)
  /\ UNCHANGED <<token, serverTx, txPage, txStage, searchQuery, txTimers,
                 autoRefreshing, txToast, transactions, displayAmounts>>
  /\ UNCHANGED <<dashVars, userVars, otherVars>>

\* handleClearSearch: setSearchQuery('') then fetchTransactions() of the
\* render the button belongs to
TxClear ==
  /\ TxInteractive
  /\ searchQuery' = <<>>
  /\ FetchTransactionsOn(TxInput("clear"), searchQuery)
  /\ txTimers' = IF searchQuery # <<>>
                THEN TimersAfterEffect(txTimers)
                ELSE txTimers
  /\ UNCHANGED <<token, serverTx, txPage, txStage, autoRefreshing, txToast,
                 transactions, displayAmounts>>
  /\ UNCHANGED <<dashVars, userVars, otherVars>>

\* a firing of the interval that waits for the earlier requests
TxTickWhenIdle ==
  /\ txStage = "mounted"
  /\ txTimers > 0
  /\ txOutstanding = NoneOutstanding
  /\ autoRefreshing' = TRUE
  /\ SendTx("tick", searchQuery, TickParams(searchQuery))
  /\ txEvent' = NoTxEvent
  /\ UNCHANGED <<token, serverTx, txPage, txStage, searchQuery, txTimers,
                 txLoading, txToast, transactions, displayAmounts>>
  /\ UNCHANGED <<dashVars, userVars, otherVars>>

\* one firing of the 2-second interval
TxTick ==
  /\ txStage = "mounted"
  /\ txTimers > 0
  /\ autoRefreshing' = TRUE
  /\ SendTx("tick", searchQuery, TickParams(searchQuery))
  /\ txEvent' = NoTxEvent
  /\ UNCHANGED <<token, serverTx, txPage, txStage, searchQuery, txTimers,
                 txLoading, txToast, transactions, displayAmounts>>
  /\ UNCHANGED <<dashVars, userVars, otherVars>>

\* the search string of the first render, which the listeners registered
\* by the effects with an empty dependency list keep
MountQuery == <<>>

\* visibilitychange listener of the auto-refresh page
TxVisibility ==
  /\ txStage = "mounted"
  /\ txPage = PageAuto
  /\ \E visible \in BOOLEAN :
       IF visible /\ token
       THEN /\ FetchTransactionsOn(TxInput("listener"), MountQuery)
            /\ UNCHANGED <<token, serverTx, txPage, txStage, searchQuery,
                           txTimers, autoRefreshing, txToast, transactions,
                           displayAmounts>>
       ELSE /\ txSent' = NoRequest
            /\ txEvent' = NoTxEvent
            /\ UNCHANGED <<token, serverTx, txPage, txStage, searchQuery,
                           txTimers, txLoading, autoRefreshing, txToast,
                           txOutstanding, transactions, displayAmounts>>
  /\ UNCHANGED <<dashVars, userVars, otherVars>>

StorageKeys == {"orderApproved", "transactionUpdated", "theme"}

\* storage listener of the auto-refresh page
TxStorage ==
  /\ txStage = "mounted"
  /\ txPage = PageAuto
  /\ \E key \in StorageKeys :
       IF key = "orderApproved" \/ key = "transactionUpdated"
       THEN /\ FetchTransactionsOn(TxInput("listener"), MountQuery)
            /\ UNCHANGED <<token, serverTx, txPage, txStage, searchQuery,
                           txTimers, autoRefreshing, txToast, transactions,
                           displayAmounts>>
       ELSE /\ txSent' = NoRequest
            /\ txEvent' = NoTxEvent
            /\ UNCHANGED <<token, serverTx, txPage, txStage, searchQuery,
                           txTimers, txLoading, autoRefreshing, txToast,
                           txOutstanding, transactions, displayAmounts>>
  /\ UNCHANGED <<dashVars, userVars, otherVars>>

\* orderApproved / transactionUpdated custom events of the same tab
TxCustomEvent ==
  /\ txStage = "mounted"
  /\ txPage = PageAuto
  /\ FetchTransactionsOn(TxInput("listener"), MountQuery)
  /\ UNCHANGED <<token, serverTx, txPage, txStage, searchQuery, txTimers,
                 autoRefreshing, txToast, transactions, displayAmounts>>
  /\ UNCHANGED <<dashVars, userVars, otherVars>>

RemoveAt(s, i) == SubSeq(s, 1, i - 1) \o SubSeq(s, i + 1, Len(s))

\* a response arrives: setTransactions, then the finally block
TxRespondOkWith(lists) ==
  /\ txStage = "mounted"
  /\ \E trigger \in {"fetch", "tick"}, list \in lists :
       /\ txOutstanding[trigger] > 0
       /\ txOutstanding' = [txOutstanding EXCEPT ![trigger] = @ - 1]
       /\ transactions' = list
       /\ displayAmounts' = RenderAmounts(list)
       /\ txSent' = NoRequest
       /\ txEvent' = TxAnswer(trigger, TRUE, list)
       /\ IF trigger = "tick"
          THEN autoRefreshing' = FALSE /\ UNCHANGED txLoading
          ELSE txLoading' = FALSE /\ UNCHANGED autoRefreshing
  /\ UNCHANGED <<token, serverTx, txPage, txStage, searchQuery, txTimers,
                 txToast>>
  /\ UNCHANGED <<dashVars, userVars, otherVars>>

TxRespondOk == TxRespondOkWith(ServerLists)

\* a failure that raises the toast for the interval callback as well
TxRespondFailAlwaysToast ==
  /\ txStage = "mounted"
  /\ \E trigger \in {"fetch", "tick"} :
       /\ txOutstanding[trigger] > 0
       /\ txOutstanding' = [txOutstanding EXCEPT ![trigger] = @ - 1]
       /\ txSent' = NoRequest
       /\ txEvent' = TxAnswer(trigger, FALSE, <<>>)
       /\ txToast' = "error"
       /\ IF trigger = "tick"
          THEN autoRefreshing' = FALSE /\ UNCHANGED txLoading
          ELSE txLoading' = FALSE /\ UNCHANGED autoRefreshing
  /\ UNCHANGED <<token, serverTx, txPage, txStage, searchQuery, txTimers,
                 transactions, displayAmounts>>
  /\ UNCHANGED <<dashVars, userVars, otherVars>>

\* a request fails: the catch block, then the finally block
TxRespondFail ==
  /\ txStage = "mounted"
  /\ \E trigger \in {"fetch", "tick"} :
       /\ txOutstanding[trigger] > 0
       /\ txOutstanding' = [txOutstanding EXCEPT ![trigger] = @ - 1]
       /\ txSent' = NoRequest
       /\ txEvent' = TxAnswer(trigger, FALSE, <<>>)
       /\ IF trigger = "tick"
          THEN autoRefreshing' = FALSE /\ UNCHANGED <<txLoading, txToast>>
          ELSE /\ txLoading' = FALSE
               /\ txToast' = "error"
               /\ UNCHANGED autoRefreshing
  /\ UNCHANGED <<token, serverTx, txPage, txStage, searchQuery, txTimers,
                 transactions, displayAmounts>>
  /\ UNCHANGED <<dashVars, userVars, otherVars>>

\* onClose of the toast
TxCloseToast ==
  /\ txStage = "mounted"
  /\ txToast # NoToast
  /\ txToast' = NoToast
  /\ txSent' = NoRequest
  /\ txEvent' = NoTxEvent
  /\ UNCHANGED <<token, serverTx, txPage, txStage, searchQuery, txTimers,
                 txLoading, autoRefreshing, txOutstanding, transactions,
                 displayAmounts>>
  /\ UNCHANGED <<dashVars, userVars, otherVars>>

\* leaving the page: the effect cleanups run and the state of the
\* component is discarded; answers that arrive later change nothing
TxUnmount ==
  /\ txStage = "mounted"
  /\ txStage' = "unmounted"
  /\ txTimers' = 0
  /\ searchQuery' = <<>>
  /\ txLoading' = TRUE
  /\ autoRefreshing' = FALSE
  /\ txToast' = NoToast
  /\ txOutstanding' = NoneOutstanding
  /\ txSent' = NoRequest
  /\ txEvent' = NoTxEvent
  /\ transactions' = <<>>
  /\ displayAmounts' = <<>>
  /\ UNCHANGED <<token, serverTx, txPage>>
  /\ UNCHANGED <<dashVars, userVars, otherVars>>

(* ------------------------------------------------------------------ *)
(* Dashboard                                                            *)
(* ------------------------------------------------------------------ *)
NoUser == 0

NoDashRequest ==
  [kind |-> "none", id |-> 0, status |-> "", amount |-> 0, description |-> ""]

NoDashEvent ==
  [type |-> "none", handler |-> "", id |-> 0, dialog |-> "none",
   entered |-> <<>>, ok |-> FALSE]

ZeroStats ==
  [pendingUsers |-> 0, approvedUsers |-> 0, pendingOrders |-> 0,
   rejectedOrders |-> 0]

\* answers of GET /users/pending, /users/approved, /orders/pending and
\* /orders/rejected that one fetchData can receive together
Order(id, status) == [id |-> id, status |-> status]

ServerSnapshots ==
  {[pending |-> <<>>, approved |-> <<>>, orders |-> <<>>, rejected |-> <<>>],
   [pending |-> <<1>>, approved |-> <<2, 3>>,
    orders |-> <<Order(1, "PENDING")>>,
    rejected |-> <<Order(3, "rejected "), Order(4, "COMPLETED")>>],
   [pending |-> <<>>, approved |-> <<2, 3>>,
    orders |-> <<Order(1, "PENDING"), Order(2, "pending")>>,
    rejected |-> <<Order(3, "REJECTED")>>],
   [pending |-> <<1>>, approved |-> <<>>,
    orders |-> <<Order(2, "pending")>>, rejected |-> <<>>]}

\* what the admin can have in the number input of the add-points form:
\* the empty string or a valid floating-point number
NumberInputValues ==
  {<<>>, <<"0">>, <<"1">>, <<"-", "1">>, <<"1", ".", "1">>, <<".", "1">>}

\* what the admin can type into a prompt() dialog
PromptValues ==
  NumberInputValues \cup {<<"a">>, <<"1", "a">>, <<"a", "1">>}

DescriptionValues == {"", "gift"}

\* getOrderStatus: (order.status || "").toUpperCase().trim()
getOrderStatus(order) ==
  CASE order.status \in {"PENDING", "pending"} -> "PENDING"
    [] order.status \in {"REJECTED", "rejected "} -> "REJECTED"
    [] OTHER -> order.status

IsRejected(order) == getOrderStatus(order) = "REJECTED"

IsPending(order) == getOrderStatus(order) = "PENDING"

Ids(orders) == {orders[i].id : i \in 1..Len(orders)}

Elems(s) == {s[i] : i \in 1..Len(s)}

\* the spinner replaces the page while loading with no pending user
DashInteractive ==
  /\ dashStage = "mounted"
  /\ ~(dashLoading /\ pendingUsers = <<>>)

\* a request leaves the dashboard
SendDash(outstanding, handler, request) ==
  /\ Len(outstanding) < MaxDashOutstanding
  /\ dashSent' = request
  /\ dashOutstanding' = Append(outstanding, handler)

\* fetchData up to its await: setLoading(true) and the four GETs
FetchData(outstanding) ==
  /\ dashLoading' = TRUE
  /\ SendDash(outstanding, "fetchData",
              [NoDashRequest EXCEPT !.kind = "fetchData"])

Click(handler, id, dialog, entered) ==
  [type |-> "click", handler |-> handler, id |-> id, dialog |-> dialog,
   entered |-> entered, ok |-> FALSE]

Response(handler, ok) ==
  [type |-> "response", handler |-> handler, id |-> 0, dialog |-> "none",
   entered |-> <<>>, ok |-> ok]

\* mount effect: the auth gate, then fetchData
DashMount ==
  /\ dashStage = "init"
  /\ dashEvent' = [NoDashEvent EXCEPT !.type = "mount"]
  /\ IF ~token
     THEN /\ dashStage' = "login"
          /\ dashSent' = NoDashRequest
          /\ UNCHANGED <<dashLoading, dashOutstanding>>
     ELSE /\ dashStage' = "mounted"
          /\ FetchData(dashOutstanding)
  /\ UNCHANGED <<pendingUsers, approvedUsers, pendingOrders, rejectedOrders,
                 stats, dashToast, showAddPoints, pointsAmount,
                 pointsDescription, lastOrderIds, hasLoadedOrders>>
  /\ UNCHANGED <<txVars, userVars, otherVars>>

\* the Refresh button, disabled while loading
DashRefresh ==
  /\ DashInteractive
  /\ ~dashLoading
  /\ dashEvent' = Click("refresh", 0, "none", <<>>)
  /\ FetchData(dashOutstanding)
  /\ UNCHANGED <<dashStage, pendingUsers, approvedUsers, pendingOrders,
                 rejectedOrders, stats, dashToast, showAddPoints,
                 pointsAmount, pointsDescription, lastOrderIds,
                 hasLoadedOrders>>
  /\ UNCHANGED <<txVars, userVars, otherVars>>

\* the forEach loop of applyPendingOrders: the ids not remembered
RECURSIVE CountNew(_, _)
CountNew(ids, remembered) ==
  IF ids = {}
  THEN 0
  ELSE LET id == CHOOSE x \in ids : TRUE
       IN  (IF id \notin remembered THEN 1 ELSE 0)
           + CountNew(ids \ {id}, remembered)

\* applyPendingOrders that notifies on the first application too
applyPendingOrdersNotifyFirst(orders, notify) ==
  LET currentIds == Ids(orders)
      newCount == CountNew(currentIds, lastOrderIds)
      raised == notify /\ newCount > 0
  IN  [pendingOrders |-> orders,
       stats |-> [stats EXCEPT !.pendingOrders = Len(orders)],
       lastOrderIds |-> currentIds,
       hasLoadedOrders |-> TRUE,
       notified |-> IF raised THEN newCount ELSE 0,
       toast |-> IF raised THEN "info" ELSE dashToast]

\* applyPendingOrders(orders, notify): the values it leaves behind;
\* notified is the count passed to showSystemNotification, 0 when no
\* notification is raised
applyPendingOrders(orders, notify) ==
  LET currentIds == Ids(orders)
      newCount == CountNew(currentIds, lastOrderIds)
      raised == notify /\ newCount > 0
  IN  IF ~hasLoadedOrders
      THEN [pendingOrders |-> orders,
            stats |-> [stats EXCEPT !.pendingOrders = Len(orders)],
            lastOrderIds |-> currentIds,
            hasLoadedOrders |-> TRUE,
            notified |-> 0,
            toast |-> dashToast]
      ELSE [pendingOrders |-> orders,
            stats |-> [stats EXCEPT !.pendingOrders = Len(orders)],
            lastOrderIds |-> currentIds,
            hasLoadedOrders |-> TRUE,
            notified |-> IF raised THEN newCount ELSE 0,
            toast |-> IF raised THEN "info" ELSE dashToast]

\* fetchData after its await, all four GETs answered
DashFetchOk ==
  /\ dashStage = "mounted"
  /\ \E i \in 1..Len(dashOutstanding) :
       /\ dashOutstanding[i] = "fetchData"
       /\ dashOutstanding' = RemoveAt(dashOutstanding, i)
  /\ \E res \in ServerSnapshots :
       LET applied == applyPendingOrders(res.orders, FALSE)
       IN  /\ pendingUsers' = res.pending
           /\ approvedUsers' = res.approved
           /\ pendingOrders' = applied.pendingOrders
           /\ lastOrderIds' = applied.lastOrderIds
           /\ hasLoadedOrders' = applied.hasLoadedOrders
           /\ dashToast' = applied.toast
           /\ rejectedOrders' = SelectSeq(res.rejected, IsRejected)
           /\ stats' = [pendingUsers |-> Len(res.pending),
                        approvedUsers |-> Len(res.approved),
                        pendingOrders |-> Len(res.orders),
                        rejectedOrders |-> Len(res.rejected)]
  /\ dashLoading' = FALSE
  /\ dashSent' = NoDashRequest
  /\ dashEvent' = Response("fetchData", TRUE)
  /\ UNCHANGED <<dashStage, showAddPoints, pointsAmount, pointsDescription>>
  /\ UNCHANGED <<txVars, userVars, otherVars>>

\* a failure that empties the lists of the dashboard
DashFetchFailClearing ==
  /\ dashStage = "mounted"
  /\ \E i \in 1..Len(dashOutstanding) :
       /\ dashOutstanding[i] = "fetchData"
       /\ dashOutstanding' = RemoveAt(dashOutstanding, i)
  /\ dashToast' = "error"
  /\ dashLoading' = FALSE
  /\ dashSent' = NoDashRequest
  /\ dashEvent' = Response("fetchData", FALSE)
  /\ pendingUsers' = <<>>
  /\ approvedUsers' = <<>>
  /\ pendingOrders' = <<>>
  /\ rejectedOrders' = <<>>
  /\ stats' = ZeroStats
  /\ UNCHANGED <<dashStage, showAddPoints, pointsAmount, pointsDescription,
                 lastOrderIds, hasLoadedOrders>>
  /\ UNCHANGED <<txVars, userVars, otherVars>>

\* fetchData after its await, one of the four GETs failed
DashFetchFail ==
  /\ dashStage = "mounted"
  /\ \E i \in 1..Len(dashOutstanding) :
       /\ dashOutstanding[i] = "fetchData"
       /\ dashOutstanding' = RemoveAt(dashOutstanding, i)
  /\ dashToast' = "error"
  /\ dashLoading' = FALSE
  /\ dashSent' = NoDashRequest
  /\ dashEvent' = Response("fetchData", FALSE)
  /\ UNCHANGED <<dashStage, pendingUsers, approvedUsers, pendingOrders,
                 rejectedOrders, stats, showAddPoints, pointsAmount,
                 pointsDescription, lastOrderIds, hasLoadedOrders>>
  /\ UNCHANGED <<txVars, userVars, otherVars>>

\* what a click that only sends a request, or does nothing, leaves alone
DashClickFrame ==
  /\ UNCHANGED <<dashStage, pendingUsers, approvedUsers, pendingOrders,
                 rejectedOrders, stats, dashLoading, showAddPoints,
                 pointsAmount, pointsDescription, lastOrderIds,
                 hasLoadedOrders>>
  /\ UNCHANGED <<txVars, userVars, otherVars>>

PatchUserStatus(userId, status) ==
  [NoDashRequest EXCEPT !.kind = "patchUserStatus", !.id = userId,
                        !.status = status]

\* handleApproveUser up to its await
DashApproveUser ==
  /\ DashInteractive
  /\ \E userId \in Elems(pendingUsers) :
       /\ dashEvent' = Click("approveUser", userId, "none", <<>>)
       /\ SendDash(dashOutstanding, "approveUser",
                   PatchUserStatus(userId, "APPROVED"))
  /\ UNCHANGED dashToast
  /\ DashClickFrame

\* handleRejectUser up to its await
DashRejectUser ==
  /\ DashInteractive
  /\ \E userId \in Elems(pendingUsers), accepted \in BOOLEAN :
       /\ dashEvent' = Click("rejectUser", userId,
                             IF accepted THEN "accepted" ELSE "declined", <<>>)
       /\ IF ~accepted
          THEN dashSent' = NoDashRequest /\ UNCHANGED dashOutstanding
          ELSE SendDash(dashOutstanding, "rejectUser",
                        PatchUserStatus(userId, "REJECTED"))
  /\ UNCHANGED dashToast
  /\ DashClickFrame

PatchOrderStatus(orderId, status) ==
  [NoDashRequest EXCEPT !.kind = "patchOrderStatus", !.id = orderId,
                        !.status = status]

\* handleOrderStatus sending the PATCH whatever the dialog answered
handleOrderStatusUnconfirmed(orderId, status, accepted) ==
  SendDash(dashOutstanding, "orderStatus", PatchOrderStatus(orderId, status))

\* handleOrderStatus up to its await
handleOrderStatus(orderId, status, accepted) ==
  IF status = "REJECTED" /\ ~accepted
  THEN dashSent' = NoDashRequest /\ UNCHANGED dashOutstanding
  ELSE SendDash(dashOutstanding, "orderStatus",
                PatchOrderStatus(orderId, status))

\* the Reject and Complete buttons of a pending order
DashOrderStatus ==
  /\ DashInteractive
  /\ \E i \in 1..Len(pendingOrders), status \in {"COMPLETED", "REJECTED"},
        accepted \in BOOLEAN :
       /\ IsPending(pendingOrders[i])
       /\ status = "COMPLETED" => ~accepted
       /\ dashEvent' = Click("orderStatus", pendingOrders[i].id,
                             IF status = "COMPLETED" THEN "none"
                             ELSE IF accepted THEN "accepted" ELSE "declined",
                             <<>>)
       /\ handleOrderStatus(pendingOrders[i].id, status, accepted)
  /\ UNCHANGED dashToast
  /\ DashClickFrame

\* the validation of handleAddPoints on both pages:
\* !amount || isNaN(parseInt(amount)) || parseInt(amount) <= 0
AmountRejected(entered) ==
  \/ entered = <<>>
  \/ ParseInt(entered).nan
  \/ ParseInt(entered).val <= 0

PostPoints(userId, amount, description) ==
  [NoDashRequest EXCEPT !.kind = "postPoints", !.id = userId,
                        !.amount = amount, !.description = description]

\* the Add Points button of a row of the approved users table
DashOpenAddPoints ==
  /\ DashInteractive
  /\ \E userId \in Elems(approvedUsers) :
       /\ showAddPoints' = userId
       /\ dashEvent' = Click("openAddPoints", userId, "none", <<>>)
  /\ dashSent' = NoDashRequest
  /\ UNCHANGED <<dashStage, pendingUsers, approvedUsers, pendingOrders,
                 rejectedOrders, stats, dashLoading, dashToast, pointsAmount,
                 pointsDescription, lastOrderIds, hasLoadedOrders,
                 dashOutstanding>>
  /\ UNCHANGED <<txVars, userVars, otherVars>>

\* the form is rendered in the row of the user it was opened for
FormShown == DashInteractive /\ showAddPoints \in Elems(approvedUsers)

\* onChange of the amount input
DashTypeAmount ==
  /\ FormShown
  /\ \E value \in NumberInputValues :
       /\ pointsAmount' = value
       /\ dashEvent' = Click("typeAmount", showAddPoints, "none", <<>>)
  /\ dashSent' = NoDashRequest
  /\ UNCHANGED <<dashStage, pendingUsers, approvedUsers, pendingOrders,
                 rejectedOrders, stats, dashLoading, dashToast, showAddPoints,
                 pointsDescription, lastOrderIds, hasLoadedOrders,
                 dashOutstanding>>
  /\ UNCHANGED <<txVars, userVars, otherVars>>

\* onChange of the description input
DashTypeDescription ==
  /\ FormShown
  /\ \E value \in DescriptionValues : pointsDescription' = value
  /\ dashEvent' = Click("typeDescription", showAddPoints, "none", <<>>)
  /\ dashSent' = NoDashRequest
  /\ UNCHANGED <<dashStage, pendingUsers, approvedUsers, pendingOrders,
                 rejectedOrders, stats, dashLoading, dashToast, showAddPoints,
                 pointsAmount, lastOrderIds, hasLoadedOrders,
                 dashOutstanding>>
  /\ UNCHANGED <<txVars, userVars, otherVars>>

\* the Cancel button of the form
DashCancelAddPoints ==
  /\ FormShown
  /\ showAddPoints' = NoUser
  /\ pointsAmount' = <<>>
  /\ pointsDescription' = ""
  /\ dashEvent' = Click("cancelAddPoints", showAddPoints, "none", <<>>)
  /\ dashSent' = NoDashRequest
  /\ UNCHANGED <<dashStage, pendingUsers, approvedUsers, pendingOrders,
                 rejectedOrders, stats, dashLoading, dashToast, lastOrderIds,
                 hasLoadedOrders, dashOutstanding>>
  /\ UNCHANGED <<txVars, userVars, otherVars>>

\* handleAddPoints of the dashboard up to its await
DashAddPoints ==
  /\ FormShown
  /\ dashEvent' = Click("addPoints", showAddPoints, "none", <<>>)
  /\ IF AmountRejected(pointsAmount)
     THEN /\ dashToast' = "error"
          /\ dashSent' = NoDashRequest
          /\ UNCHANGED dashOutstanding
     ELSE /\ SendDash(dashOutstanding, "addPoints",
                      PostPoints(showAddPoints, ParseInt(pointsAmount).val,
                                 IF pointsDescription = "" THEN "Quick Store"
                                 ELSE pointsDescription))
          /\ UNCHANGED dashToast
  /\ DashClickFrame

\* handleApproveUser after its await finishing with a refetch either way
handleApproveUserAlwaysRefetch(ok, rest) ==
  /\ dashToast' = IF ok THEN "success" ELSE "error"
  /\ FetchData(rest)

\* handleApproveUser after its await
handleApproveUserDone(ok, rest) ==
  IF ok
  THEN /\ dashToast' = "success"
       /\ FetchData(rest)
  ELSE /\ dashToast' = "error"
       /\ dashSent' = NoDashRequest
       /\ dashOutstanding' = rest
       /\ UNCHANGED dashLoading

\* handleRejectUser after its await, fetching again when the PATCH failed
handleRejectUserDoneRetry(ok, rest) ==
  /\ dashToast' = IF ok THEN "success" ELSE "error"
  /\ FetchData(rest)

\* handleRejectUser after its await
handleRejectUserDone(ok, rest) ==
  IF ok
  THEN /\ dashToast' = "success"
       /\ FetchData(rest)
  ELSE /\ dashToast' = "error"
       /\ dashSent' = NoDashRequest
       /\ dashOutstanding' = rest
       /\ UNCHANGED dashLoading

\* handleOrderStatus after its await
handleOrderStatusDone(ok, rest) ==
  IF ok
  THEN /\ dashToast' = "success"
       /\ FetchData(rest)
  ELSE /\ dashToast' = "error"
       /\ dashSent' = NoDashRequest
       /\ dashOutstanding' = rest
       /\ UNCHANGED dashLoading

\* the answer to a status PATCH arrives
DashStatusDone ==
  /\ dashStage = "mounted"
  /\ \E i \in 1..Len(dashOutstanding), ok \in BOOLEAN :
       LET handler == dashOutstanding[i]
           rest == RemoveAt(dashOutstanding, i)
       IN  /\ handler \in {"approveUser", "rejectUser", "orderStatus"}
           /\ dashEvent' = Response(handler, ok)
           /\ CASE handler = "approveUser" -> handleApproveUserDone(ok, rest)
                [] handler = "rejectUser" -> handleRejectUserDone(ok, rest)
                [] OTHER -> handleOrderStatusDone(ok, rest)
  /\ UNCHANGED <<dashStage, pendingUsers, approvedUsers, pendingOrders,
                 rejectedOrders, stats, showAddPoints, pointsAmount,
                 pointsDescription, lastOrderIds, hasLoadedOrders>>
  /\ UNCHANGED <<txVars, userVars, otherVars>>

\* handleAddPoints of the dashboard after its await
DashAddPointsDone ==
  /\ dashStage = "mounted"
  /\ \E i \in 1..Len(dashOutstanding), ok \in BOOLEAN :
       /\ dashOutstanding[i] = "addPoints"
       /\ dashEvent' = Response("addPoints", ok)
       /\ IF ok
          THEN /\ dashToast' = "success"
               /\ pointsAmount' = <<>>
               /\ pointsDescription' = ""
               /\ FetchData(RemoveAt(dashOutstanding, i))
          ELSE /\ dashToast' = "error"
               /\ dashSent' = NoDashRequest
               /\ dashOutstanding' = RemoveAt(dashOutstanding, i)
               /\ UNCHANGED <<dashLoading, pointsAmount, pointsDescription>>
  /\ UNCHANGED <<dashStage, pendingUsers, approvedUsers, pendingOrders,
                 rejectedOrders, stats, showAddPoints, lastOrderIds,
                 hasLoadedOrders>>
  /\ UNCHANGED <<txVars, userVars, otherVars>>

\* onClose of the toast
DashCloseToast ==
  /\ dashStage = "mounted"
  /\ dashToast # NoToast
  /\ dashToast' = NoToast
  /\ dashSent' = NoDashRequest
  /\ dashEvent' = Click("closeToast", 0, "none", <<>>)
  /\ UNCHANGED <<dashStage, pendingUsers, approvedUsers, pendingOrders,
                 rejectedOrders, stats, dashLoading, showAddPoints,
                 pointsAmount, pointsDescription, lastOrderIds,
                 hasLoadedOrders, dashOutstanding>>
  /\ UNCHANGED <<txVars, userVars, otherVars>>

\* the dashboard is not the page shown
DashOff ==
  /\ dashStage = "off"
  /\ pendingUsers = <<>>
  /\ approvedUsers = <<>>
  /\ pendingOrders = <<>>
  /\ rejectedOrders = <<>>
  /\ stats = ZeroStats
  /\ dashLoading = TRUE
  /\ dashToast = NoToast
  /\ showAddPoints = NoUser
  /\ pointsAmount = <<>>
  /\ pointsDescription = ""
  /\ lastOrderIds = {}
  /\ hasLoadedOrders = FALSE
  /\ dashOutstanding = <<>>
  /\ dashSent = NoDashRequest
  /\ dashEvent = NoDashEvent

(* ------------------------------------------------------------------ *)
(* User details page                                                    *)
(* ------------------------------------------------------------------ *)
\* the id of the route /users/[id]
RouteUserId == 2

SendUser(outstanding, handler, request) ==
  /\ Len(outstanding) < MaxUserOutstanding
  /\ userSent' = request
  /\ userOutstanding' = Append(outstanding, handler)

\* fetchUserDetails up to its await
fetchUserDetails(outstanding) ==
  /\ userLoading' = TRUE
  /\ SendUser(outstanding, "fetchUserDetails",
              [NoDashRequest EXCEPT !.kind = "getUser", !.id = RouteUserId])

\* mount effect of the user details page
UserMount ==
  /\ userStage = "init"
  /\ userEvent' = [NoDashEvent EXCEPT !.type = "mount"]
  /\ IF ~token
     THEN /\ userStage' = "login"
          /\ userSent' = NoDashRequest
          /\ UNCHANGED <<userLoading, userOutstanding>>
     ELSE /\ userStage' = "mounted"
          /\ fetchUserDetails(userOutstanding)
  /\ UNCHANGED <<user, loadingTransactions, userTransactions, userToast,
                 addPointsReceipt>>
  /\ UNCHANGED <<txVars, dashVars, otherVars>>

\* fetchUserDetails after its await; success starts fetchUserTransactions
UserDetailsDone ==
  /\ userStage = "mounted"
  /\ \E i \in 1..Len(userOutstanding), ok \in BOOLEAN :
       /\ userOutstanding[i] = "fetchUserDetails"
       /\ userEvent' = Response("fetchUserDetails", ok)
       /\ IF ok
          THEN /\ \E status \in {"PENDING", "APPROVED", "REJECTED"} :
                    user' = status
               /\ loadingTransactions' = TRUE
               /\ SendUser(RemoveAt(userOutstanding, i),
                           "fetchUserTransactions",
                           [NoDashRequest EXCEPT
                              !.kind = "getUserTransactions",
                              !.id = RouteUserId])
               /\ UNCHANGED userToast
          ELSE /\ userToast' = "error"
               /\ userSent' = NoDashRequest
               /\ userOutstanding' = RemoveAt(userOutstanding, i)
               /\ UNCHANGED <<user, loadingTransactions>>
  /\ userLoading' = FALSE
  /\ UNCHANGED <<userStage, userTransactions, addPointsReceipt>>
  /\ UNCHANGED <<txVars, dashVars, otherVars>>

\* fetchUserTransactions after its await
UserTransactionsDone ==
  /\ userStage = "mounted"
  /\ \E i \in 1..Len(userOutstanding), ok \in BOOLEAN :
       /\ userOutstanding[i] = "fetchUserTransactions"
       /\ userOutstanding' = RemoveAt(userOutstanding, i)
       /\ userEvent' = Response("fetchUserTransactions", ok)
       /\ IF ok
          THEN \E list \in ServerLists : userTransactions' = list
          ELSE UNCHANGED userTransactions
  /\ loadingTransactions' = FALSE
  /\ userSent' = NoDashRequest
  /\ UNCHANGED <<userStage, user, userLoading, userToast, addPointsReceipt>>
  /\ UNCHANGED <<txVars, dashVars, otherVars>>

\* the Actions panel is rendered
UserShown == userStage = "mounted" /\ ~userLoading /\ user # "NONE"

\* handleAddPoints of the user details page up to its await; the first
\* prompt answers null (cancelled) or a text, the second the description
UserAddPoints ==
  /\ UserShown
  /\ user # "PENDING"
  /\ \E cancelled \in BOOLEAN, text \in PromptValues,
        description \in DescriptionValues :
       LET amount == IF cancelled THEN <<>> ELSE text
       IN  /\ cancelled => text = <<>>
           /\ AmountRejected(amount) => description = ""
           /\ userEvent' = Click("addPoints", RouteUserId,
                                 IF cancelled THEN "cancelled" ELSE "none",
                                 amount)
           /\ IF AmountRejected(amount)
              THEN /\ userToast' = "error"
                   /\ userSent' = NoDashRequest
                   /\ UNCHANGED userOutstanding
              ELSE /\ SendUser(userOutstanding, "addPoints",
                               PostPoints(RouteUserId, ParseInt(amount).val,
                                          IF description = ""
                                          THEN "Admin added points"
                                          ELSE description))
                   /\ UNCHANGED userToast
  /\ UNCHANGED <<userStage, user, userLoading, loadingTransactions,
                 userTransactions, addPointsReceipt>>
  /\ UNCHANGED <<txVars, dashVars, otherVars>>

\* handleAddPoints of the user details page after its await
UserAddPointsDone ==
  /\ userStage = "mounted"
  /\ \E i \in 1..Len(userOutstanding), ok \in BOOLEAN :
       /\ userOutstanding[i] = "addPoints"
       /\ userEvent' = Response("addPoints", ok)
       /\ IF ok
          THEN /\ userToast' = "success"
               /\ addPointsReceipt' = TRUE
               /\ fetchUserDetails(RemoveAt(userOutstanding, i))
          ELSE /\ userToast' = "error"
               /\ userSent' = NoDashRequest
               /\ userOutstanding' = RemoveAt(userOutstanding, i)
               /\ UNCHANGED <<userLoading, addPointsReceipt>>
  /\ UNCHANGED <<userStage, user, loadingTransactions, userTransactions>>
  /\ UNCHANGED <<txVars, dashVars, otherVars>>

\* handleStatusChange up to its await
UserStatusChange ==
  /\ UserShown
  /\ user = "PENDING"
  /\ \E newStatus \in {"APPROVED", "REJECTED"}, accepted \in BOOLEAN :
       /\ userEvent' = Click("statusChange", RouteUserId,
                             IF accepted THEN "accepted" ELSE "declined",
                             <<>>)
       /\ IF ~accepted
          THEN userSent' = NoDashRequest /\ UNCHANGED userOutstanding
          ELSE SendUser(userOutstanding, "statusChange",
                        PatchUserStatus(RouteUserId, newStatus))
  /\ UNCHANGED <<userStage, user, userLoading, loadingTransactions,
                 userTransactions, userToast, addPointsReceipt>>
  /\ UNCHANGED <<txVars, dashVars, otherVars>>

\* handleStatusChange after its await
UserStatusDone ==
  /\ userStage = "mounted"
  /\ \E i \in 1..Len(userOutstanding), ok \in BOOLEAN :
       /\ userOutstanding[i] = "statusChange"
       /\ userEvent' = Response("statusChange", ok)
       /\ IF ok
          THEN /\ userToast' = "success"
               /\ fetchUserDetails(RemoveAt(userOutstanding, i))
          ELSE /\ userToast' = "error"
               /\ userSent' = NoDashRequest
               /\ userOutstanding' = RemoveAt(userOutstanding, i)
               /\ UNCHANGED userLoading
  /\ UNCHANGED <<userStage, user, loadingTransactions, userTransactions,
                 addPointsReceipt>>
  /\ UNCHANGED <<txVars, dashVars, otherVars>>

\* onClose of the toast
UserCloseToast ==
  /\ userStage = "mounted"
  /\ userToast # NoToast
  /\ userToast' = NoToast
  /\ userSent' = NoDashRequest
  /\ userEvent' = Click("closeToast", 0, "none", <<>>)
  /\ UNCHANGED <<userStage, user, userLoading, loadingTransactions,
                 userTransactions, addPointsReceipt, userOutstanding>>
  /\ UNCHANGED <<txVars, dashVars, otherVars>>

\* the user details page is not the page shown
UserOff ==
  /\ userStage = "off"
  /\ user = "NONE"
  /\ userLoading = TRUE
  /\ loadingTransactions = FALSE
  /\ userTransactions = <<>>
  /\ userToast = NoToast
  /\ addPointsReceipt = FALSE
  /\ userOutstanding = <<>>
  /\ userSent = NoDashRequest
  /\ userEvent = NoDashEvent

(* ------------------------------------------------------------------ *)
(* Reports page                                                         *)
(* ------------------------------------------------------------------ *)
MaxRepOutstanding == 2

NoReport == [present |-> FALSE, weekStart |-> ""]

\* week_start of the entries of report.availableWeeks
AvailableWeeks == {"2026-01-01", "2026-01-08"}

NoRepRequest == [kind |-> "none"]

NoRepEvent == [type |-> "none", week |-> "", ok |-> FALSE]

\* params of GET /users/reports/weekly: weekStart only for a chosen week
ReportParams(week) ==
  IF week # "" THEN [weekStart |-> week] ELSE <<>>

\* the answer of the server to a report request: the report of that week
ReportFor(week) == [present |-> TRUE, weekStart |-> week]

\* fetchReport up to its await: setLoading(true) and the GET
fetchReport(week) ==
  /\ Len(repOutstanding) < MaxRepOutstanding
  /\ repLoading' = TRUE
  /\ repSent' = [kind |-> "fetchReport", params |-> ReportParams(week)]
  /\ repOutstanding' = Append(repOutstanding, week)

\* the effect without its auth gate
ReportEffectUngated(week) ==
  /\ repStage' = "mounted"
  /\ fetchReport(week)

\* the effect keyed on selectedWeek: the auth gate, then fetchReport
ReportEffect(week) ==
  IF ~token
  THEN /\ repStage' = "login"
       /\ repSent' = NoRepRequest
       /\ UNCHANGED <<repLoading, repOutstanding>>
  ELSE /\ repStage' = "mounted"
       /\ fetchReport(week)

\* first run of the effect
RepMount ==
  /\ repStage = "init"
  /\ repEvent' = [NoRepEvent EXCEPT !.type = "mount"]
  /\ ReportEffect(selectedWeek)
  /\ UNCHANGED <<selectedWeek, report, repToast, repFailed>>
  /\ UNCHANGED <<txVars, dashVars, userVars, annVars, loginVars>>

\* the options of the week dropdown
WeekOptions ==
  {""} \cup (IF report.present THEN AvailableWeeks ELSE {})

\* onChange of the week dropdown: setSelectedWeek, which re-runs the effect
RepSelectWeek ==
  /\ repStage \in {"mounted", "login"}
  /\ \E week \in WeekOptions \ {selectedWeek} :
       /\ selectedWeek' = week
       /\ repEvent' = [NoRepEvent EXCEPT !.type = "select", !.week = week]
       /\ ReportEffect(week)
  /\ UNCHANGED <<report, repToast, repFailed>>
  /\ UNCHANGED <<txVars, dashVars, userVars, annVars, loginVars>>

\* fetchReport after its await, for the request that is answered
fetchReportDone(i, ok) ==
  IF ok
  THEN /\ report' = ReportFor(repOutstanding[i])
       /\ UNCHANGED <<repToast, repFailed>>
  ELSE /\ repToast' = "error"
       /\ repFailed' = TRUE
       /\ UNCHANGED report

\* a report request is answered, in any order
RepFetchDone ==
  /\ repStage \in {"mounted", "login"}
  /\ \E i \in 1..Len(repOutstanding), ok \in BOOLEAN :
       /\ fetchReportDone(i, ok)
       /\ repEvent' = [type |-> "response", week |-> repOutstanding[i],
                       ok |-> ok]
       /\ repOutstanding' = RemoveAt(repOutstanding, i)
  /\ repLoading' = FALSE
  /\ repSent' = NoRepRequest
  /\ UNCHANGED <<repStage, selectedWeek>>
  /\ UNCHANGED <<txVars, dashVars, userVars, annVars, loginVars>>

\* onClose of the toast
RepCloseToast ==
  /\ repStage \in {"mounted", "login"}
  /\ repToast # NoToast
  /\ repToast' = NoToast
  /\ repSent' = NoRepRequest
  /\ repEvent' = [NoRepEvent EXCEPT !.type = "closeToast"]
  /\ UNCHANGED <<repStage, selectedWeek, report, repLoading, repOutstanding,
                 repFailed>>
  /\ UNCHANGED <<txVars, dashVars, userVars, annVars, loginVars>>

\* the reports page before its first effect, or not shown
RepAt(stage) ==
  /\ repStage = stage
  /\ selectedWeek = ""
  /\ report = NoReport
  /\ repLoading = TRUE
  /\ repToast = NoToast
  /\ repOutstanding = <<>>
  /\ repSent = NoRepRequest
  /\ repEvent = NoRepEvent
  /\ repFailed = FALSE

\* the reports page is not the page shown
RepOff == RepAt("off")

(* ------------------------------------------------------------------ *)
(* Announcements page                                                   *)
(* ------------------------------------------------------------------ *)
MaxAnnOutstanding == 2

\* editingId while it is null
NoEdit == -1

\* the truthiness of a value of type number | null: null and 0 are falsy
Truthy(n) == n # NoEdit /\ n # 0

Announcement(id, active) == [id |-> id, is_active |-> active]

\* answers of GET /announcements
ServerAnnouncements ==
  {<<>>,
   <<Announcement(0, TRUE), Announcement(1, TRUE), Announcement(2, FALSE)>>}

NoAnnRequest == [kind |-> "none", id |-> 0, is_active |-> FALSE]

NoAnnEvent ==
  [type |-> "none", handler |-> "", id |-> 0, dialog |-> "none", ok |-> FALSE]

AnnClick(handler, id, dialog) ==
  [type |-> "click", handler |-> handler, id |-> id, dialog |-> dialog,
   ok |-> FALSE]

AnnResponse(handler, ok) ==
  [type |-> "response", handler |-> handler, id |-> 0, dialog |-> "none",
   ok |-> ok]

\* a request leaves the announcements page
SendAnn(outstanding, handler, request) ==
  /\ Len(outstanding) < MaxAnnOutstanding
  /\ annSent' = request
  /\ annOutstanding' = Append(outstanding, handler)

\* fetchAnnouncements up to its await: setLoading(true) and the GET
fetchAnnouncements(outstanding) ==
  /\ annLoading' = TRUE
  /\ SendAnn(outstanding, "fetchAnnouncements",
             [NoAnnRequest EXCEPT !.kind = "fetchAnnouncements"])

\* mount effect: the auth gate, then fetchAnnouncements
AnnMount ==
  /\ annStage = "init"
  /\ annEvent' = [NoAnnEvent EXCEPT !.type = "mount"]
  /\ IF ~token
     THEN /\ annStage' = "login"
          /\ annSent' = NoAnnRequest
          /\ UNCHANGED <<annLoading, annOutstanding>>
     ELSE /\ annStage' = "mounted"
          /\ fetchAnnouncements(annOutstanding)
  /\ UNCHANGED <<announcements, annToast, showModal, editingId>>
  /\ UNCHANGED <<txVars, dashVars, userVars, repVars, loginVars>>

\* fetchAnnouncements after its await: the list, or an error toast
AnnFetchDone ==
  /\ annStage \in {"mounted", "login"}
  /\ \E i \in 1..Len(annOutstanding), ok \in BOOLEAN :
       /\ annOutstanding[i] = "fetchAnnouncements"
       /\ annEvent' = AnnResponse("fetchAnnouncements", ok)
       /\ annOutstanding' = RemoveAt(annOutstanding, i)
       /\ IF ok
          THEN /\ announcements' \in ServerAnnouncements
               /\ UNCHANGED annToast
          ELSE /\ annToast' = "error"
               /\ UNCHANGED announcements
  /\ annLoading' = FALSE
  /\ annSent' = NoAnnRequest
  /\ UNCHANGED <<annStage, showModal, editingId>>
  /\ UNCHANGED <<txVars, dashVars, userVars, repVars, loginVars>>

\* the header and the modal are rendered whatever the gate decided, until
\* the router has replaced the page
AnnRendered == annStage \in {"mounted", "login"}

\* the New Announcement button
AnnOpenCreateModal ==
  /\ AnnRendered
  /\ editingId' = NoEdit
  /\ showModal' = TRUE
  /\ annSent' = NoAnnRequest
  /\ annEvent' = AnnClick("openCreateModal", 0, "none")
  /\ UNCHANGED <<annStage, announcements, annLoading, annToast,
                 annOutstanding>>
  /\ UNCHANGED <<txVars, dashVars, userVars, repVars, loginVars>>

\* the cards of the list are rendered when the page is not loading
AnnListShown == AnnRendered /\ ~annLoading

\* the edit button of a card
AnnOpenEditModal ==
  /\ AnnListShown
  /\ \E i \in 1..Len(announcements) :
       /\ editingId' = announcements[i].id
       /\ annEvent' = AnnClick("openEditModal", announcements[i].id, "none")
  /\ showModal' = TRUE
  /\ annSent' = NoAnnRequest
  /\ UNCHANGED <<annStage, announcements, annLoading, annToast,
                 annOutstanding>>
  /\ UNCHANGED <<txVars, dashVars, userVars, repVars, loginVars>>

\* the Cancel button of the modal
AnnCloseModal ==
  /\ AnnRendered
  /\ showModal
  /\ showModal' = FALSE
  /\ editingId' = NoEdit
  /\ annSent' = NoAnnRequest
  /\ annEvent' = AnnClick("closeModal", 0, "none")
  /\ UNCHANGED <<annStage, announcements, annLoading, annToast,
                 annOutstanding>>
  /\ UNCHANGED <<txVars, dashVars, userVars, repVars, loginVars>>

\* handleSubmit up to its await: PUT if (editingId), POST otherwise
AnnSubmit ==
  /\ AnnRendered
  /\ showModal
  /\ annEvent' = AnnClick("handleSubmit", editingId, "none")
  /\ SendAnn(annOutstanding, "handleSubmit",
             IF Truthy(editingId)
             THEN [NoAnnRequest EXCEPT !.kind = "update", !.id = editingId]
             ELSE [NoAnnRequest EXCEPT !.kind = "create"])
  /\ UNCHANGED <<annStage, announcements, annLoading, annToast, showModal,
                 editingId>>
  /\ UNCHANGED <<txVars, dashVars, userVars, repVars, loginVars>>

\* handleDelete up to its await: the confirm() dialog, then the DELETE
handleDeleteUnconfirmed(id, accepted) ==
  SendAnn(annOutstanding, "handleDelete",
          [NoAnnRequest EXCEPT !.kind = "delete", !.id = id])

handleDelete(id, accepted) ==
  IF ~accepted
  THEN annSent' = NoAnnRequest /\ UNCHANGED annOutstanding
  ELSE SendAnn(annOutstanding, "handleDelete",
               [NoAnnRequest EXCEPT !.kind = "delete", !.id = id])

\* the delete button of a card
AnnDelete ==
  /\ AnnListShown
  /\ \E i \in 1..Len(announcements), accepted \in BOOLEAN :
       /\ annEvent' = AnnClick("handleDelete", announcements[i].id,
                               IF accepted THEN "accepted" ELSE "declined")
       /\ handleDelete(announcements[i].id, accepted)
  /\ UNCHANGED <<annStage, announcements, annLoading, annToast, showModal,
                 editingId>>
  /\ UNCHANGED <<txVars, dashVars, userVars, repVars, loginVars>>

\* toggleActive up to its await: PUT with the flag inverted
AnnToggleActive ==
  /\ AnnListShown
  /\ \E i \in 1..Len(announcements) :
       /\ annEvent' = AnnClick("toggleActive", announcements[i].id, "none")
       /\ SendAnn(annOutstanding, "toggleActive",
                  [kind |-> "toggle", id |-> announcements[i].id,
                   is_active |-> ~announcements[i].is_active])
  /\ UNCHANGED <<annStage, announcements, annLoading, annToast, showModal,
                 editingId>>
  /\ UNCHANGED <<txVars, dashVars, userVars, repVars, loginVars>>

\* a mutation handler after its await that leaves the list as fetched
annMutationDoneNoRefetch(handler, ok, rest) ==
  /\ annToast' = IF ok THEN "success" ELSE "error"
  /\ annSent' = NoAnnRequest
  /\ annOutstanding' = rest
  /\ UNCHANGED annLoading

\* a mutation handler after its await: success toast and refetch, or
\* error toast
annMutationDone(handler, ok, rest) ==
  IF ok
  THEN /\ annToast' = "success"
       /\ fetchAnnouncements(rest)
  ELSE /\ annToast' = "error"
       /\ annSent' = NoAnnRequest
       /\ annOutstanding' = rest
       /\ UNCHANGED annLoading

\* handleSubmit, handleDelete or toggleActive is answered; handleSubmit
\* closes the modal before it refetches
AnnMutationDone ==
  /\ annStage \in {"mounted", "login"}
  /\ \E i \in 1..Len(annOutstanding), ok \in BOOLEAN :
       /\ annOutstanding[i] # "fetchAnnouncements"
       /\ annEvent' = AnnResponse(annOutstanding[i], ok)
       /\ annMutationDone(annOutstanding[i], ok, RemoveAt(annOutstanding, i))
       /\ IF ok /\ annOutstanding[i] = "handleSubmit"
          THEN showModal' = FALSE /\ editingId' = NoEdit
          ELSE UNCHANGED <<showModal, editingId>>
  /\ UNCHANGED <<annStage, announcements>>
  /\ UNCHANGED <<txVars, dashVars, userVars, repVars, loginVars>>

\* onClose of the toast
AnnCloseToast ==
  /\ AnnRendered
  /\ annToast # NoToast
  /\ annToast' = NoToast
  /\ annSent' = NoAnnRequest
  /\ annEvent' = AnnClick("closeToast", 0, "none")
  /\ UNCHANGED <<annStage, announcements, annLoading, showModal, editingId,
                 annOutstanding>>
  /\ UNCHANGED <<txVars, dashVars, userVars, repVars, loginVars>>

\* the announcements page before its mount effect, or not shown
AnnAt(stage) ==
  /\ annStage = stage
  /\ announcements = <<>>
  /\ annLoading = TRUE
  /\ annToast = NoToast
  /\ showModal = FALSE
  /\ editingId = NoEdit
  /\ annOutstanding = <<>>
  /\ annSent = NoAnnRequest
  /\ annEvent = NoAnnEvent

\* the announcements page is not the page shown
AnnOff == AnnAt("off")

\* no transactions page is shown
TxOff ==
  /\ serverTx = <<>>
  /\ txPage = PageAuto
  /\ txStage = "off"
  /\ searchQuery = <<>>
  /\ txTimers = 0
  /\ txLoading = TRUE
  /\ autoRefreshing = FALSE
  /\ txToast = NoToast
  /\ txOutstanding = NoneOutstanding
  /\ txSent = NoRequest
  /\ txEvent = NoTxEvent
  /\ transactions = <<>>
  /\ displayAmounts = <<>>

(* ------------------------------------------------------------------ *)
(* Login page, logout and navigation                                    *)
(* ------------------------------------------------------------------ *)
NoLoginEvent == [type |-> "none", ok |-> FALSE, role |-> ""]

\* the login page as constructed, or not shown
LoginAt(stage) ==
  /\ loginStage = stage
  /\ loginLoading = FALSE
  /\ loginError = ""
  /\ loginOutstanding = 0
  /\ loginEvent = NoLoginEvent

\* the login page is not the page shown
LoginOff == LoginAt("off")

\* no page besides the transactions, dashboard and user details pages is
\* shown, and nobody has logged in or out
OthersOff == RepOff /\ AnnOff /\ LoginOff /\ lastAuth = "none"

\* the state of a dashboard component that has just been constructed
DashFresh ==
  /\ pendingUsers' = <<>>
  /\ approvedUsers' = <<>>
  /\ pendingOrders' = <<>>
  /\ rejectedOrders' = <<>>
  /\ stats' = ZeroStats
  /\ dashLoading' = TRUE
  /\ dashToast' = NoToast
  /\ showAddPoints' = NoUser
  /\ pointsAmount' = <<>>
  /\ pointsDescription' = ""
  /\ lastOrderIds' = {}
  /\ hasLoadedOrders' = FALSE
  /\ dashOutstanding' = <<>>
  /\ dashSent' = NoDashRequest

\* the state of a user details component that has just been constructed
UserFresh ==
  /\ user' = "NONE"
  /\ userLoading' = TRUE
  /\ loadingTransactions' = FALSE
  /\ userTransactions' = <<>>
  /\ userToast' = NoToast
  /\ addPointsReceipt' = FALSE
  /\ userOutstanding' = <<>>
  /\ userSent' = NoDashRequest

\* the state of a transactions component that has just been constructed
TxFresh ==
  /\ serverTx' = <<>>
  /\ searchQuery' = <<>>
  /\ txTimers' = 0
  /\ txLoading' = TRUE
  /\ autoRefreshing' = FALSE
  /\ txToast' = NoToast
  /\ txOutstanding' = NoneOutstanding
  /\ txSent' = NoRequest
  /\ transactions' = <<>>
  /\ displayAmounts' = <<>>

\* the state of a reports component that has just been constructed
RepFresh ==
  /\ selectedWeek' = ""
  /\ report' = NoReport
  /\ repLoading' = TRUE
  /\ repToast' = NoToast
  /\ repOutstanding' = <<>>
  /\ repSent' = NoRepRequest
  /\ repFailed' = FALSE

\* the state of an announcements component that has just been constructed
AnnFresh ==
  /\ announcements' = <<>>
  /\ annLoading' = TRUE
  /\ annToast' = NoToast
  /\ showModal' = FALSE
  /\ editingId' = NoEdit
  /\ annOutstanding' = <<>>
  /\ annSent' = NoAnnRequest

\* the state of a login component that has just been constructed
LoginFresh ==
  /\ loginLoading' = FALSE
  /\ loginError' = ""
  /\ loginOutstanding' = 0

Routes ==
  {"/login", "/dashboard", "/users", "/transactions", "/reports",
   "/announcements"}

Roles == {"ADMIN", "USER"}

StageAt(route, target) ==
  IF route # target THEN "off" ELSE IF route = "/login" THEN "shown" ELSE "init"

\* the router shows the page of a route: the page shown before is
\* unmounted and a new component is constructed
Navigate(target) ==
  /\ DashFresh /\ UserFresh /\ TxFresh /\ RepFresh /\ AnnFresh /\ LoginFresh
  /\ dashStage' = StageAt("/dashboard", target)
  /\ userStage' = StageAt("/users", target)
  /\ txStage' = StageAt("/transactions", target)
  /\ repStage' = StageAt("/reports", target)
  /\ annStage' = StageAt("/announcements", target)
  /\ loginStage' = StageAt("/login", target)
  /\ txPage' \in IF target = "/transactions"
                 THEN {PageAuto, PageEmail} ELSE {PageAuto}
  /\ dashEvent' = NoDashEvent
  /\ userEvent' = NoDashEvent
  /\ txEvent' = NoTxEvent
  /\ repEvent' = NoRepEvent
  /\ annEvent' = NoAnnEvent

\* the page shown renders the sidebar
SidebarShown ==
  \/ DashInteractive
  \/ userStage = "mounted" /\ ~userLoading
  \/ TxInteractive
  \/ repStage \in {"mounted", "login"}
  \/ AnnRendered

\* a link of the sidebar or of a page, or an address typed by the admin
OpenRoute ==
  /\ \E target \in Routes : Navigate(target)
  /\ loginEvent' = [NoLoginEvent EXCEPT !.type = "open"]
  /\ UNCHANGED <<token, lastAuth>>

\* router.push('/login') of an auth gate takes effect
FollowRedirect ==
  /\ "login" \in {dashStage, userStage, txStage, repStage, annStage}
  /\ Navigate("/login")
  /\ loginEvent' = [NoLoginEvent EXCEPT !.type = "redirect"]
  /\ UNCHANGED <<token, lastAuth>>

\* a logout that navigates and leaves the cookie in place
LogoutKeepingToken ==
  /\ SidebarShown
  /\ lastAuth' = "logout"
  /\ Navigate("/login")
  /\ loginEvent' = [NoLoginEvent EXCEPT !.type = "logout"]
  /\ UNCHANGED token

\* handleLogout of the sidebar: removeToken, then router.push("/login")
Logout ==
  /\ SidebarShown
  /\ token' = FALSE
  /\ lastAuth' = "logout"
  /\ Navigate("/login")
  /\ loginEvent' = [NoLoginEvent EXCEPT !.type = "logout"]

\* the cookie set with expires: 7 runs out
TokenExpires ==
  /\ token
  /\ token' = FALSE
  /\ UNCHANGED <<txPageVars, dashVars, userVars, otherVars>>

\* handleInputChange of the login form
LoginInputChange ==
  /\ loginStage = "shown"
  /\ loginError' = ""
  /\ loginEvent' = [NoLoginEvent EXCEPT !.type = "input"]
  /\ UNCHANGED <<loginStage, loginLoading, loginOutstanding, lastAuth>>
  /\ UNCHANGED <<txVars, dashVars, userVars, repVars, annVars>>

\* handleSubmit up to its await; the button is disabled while loading
LoginSubmit ==
  /\ loginStage = "shown"
  /\ ~loginLoading
  /\ loginError' = ""
  /\ loginLoading' = TRUE
  /\ loginOutstanding' = loginOutstanding + 1
  /\ loginEvent' = [NoLoginEvent EXCEPT !.type = "submit"]
  /\ UNCHANGED <<loginStage, lastAuth>>
  /\ UNCHANGED <<txVars, dashVars, userVars, repVars, annVars>>

\* handleSubmit after its await, without the check of the role
handleSubmitDoneAnyRole(ok, role) ==
  IF ok
  THEN /\ token' = TRUE
       /\ lastAuth' = "login"
       /\ Navigate("/dashboard")
  ELSE /\ loginError' = "Login failed"
       /\ loginLoading' = FALSE
       /\ loginOutstanding' = loginOutstanding - 1
       /\ UNCHANGED <<loginStage, lastAuth>>
       /\ UNCHANGED <<txVars, dashVars, userVars, repVars, annVars>>

\* handleSubmit after its await: setToken and router.push('/dashboard')
\* for an ADMIN, an inline error otherwise
handleSubmitDone(ok, role) ==
  IF ok /\ role = "ADMIN"
  THEN /\ token' = TRUE
       /\ lastAuth' = "login"
       /\ Navigate("/dashboard")
  ELSE /\ loginError' = IF ok THEN "Admin access required" ELSE "Login failed"
       /\ loginLoading' = FALSE
       /\ loginOutstanding' = loginOutstanding - 1
       /\ UNCHANGED <<loginStage, lastAuth>>
       /\ UNCHANGED <<txVars, dashVars, userVars, repVars, annVars>>

\* POST /auth/login is answered
LoginDone ==
  /\ loginStage = "shown"
  /\ loginOutstanding > 0
  /\ \E ok \in BOOLEAN, role \in Roles :
       /\ loginEvent' = [type |-> "response", ok |-> ok, role |-> role]
       /\ handleSubmitDone(ok, role)

\* isAuthenticated: !!getToken()
isAuthenticated == token

(* ------------------------------------------------------------------ *)
(* Specifications                                                       *)
(* ------------------------------------------------------------------ *)
TxInit ==
  /\ token \in BOOLEAN
  /\ serverTx = <<>>
  /\ txPage \in {PageAuto, PageEmail}
  /\ txStage = "init"
  /\ searchQuery = <<>>
  /\ txTimers = 0
  /\ txLoading = TRUE
  /\ autoRefreshing = FALSE
  /\ txToast = NoToast
  /\ txOutstanding = NoneOutstanding
  /\ txSent = NoRequest
  /\ txEvent = NoTxEvent
  /\ transactions = <<>>
  /\ displayAmounts = <<>>
  /\ DashOff
  /\ UserOff
  /\ OthersOff

TxNext ==
  \/ TxMount
  \/ TxType
  \/ TxSearch
  \/ TxRefresh
  \/ TxClear
  \/ TxTick
  \/ TxVisibility
  \/ TxStorage
  \/ TxCustomEvent
  \/ TxRespondOk
  \/ TxRespondFail
  \/ TxCloseToast
  \/ TxUnmount

\* the transactions pages
SpecTx == TxInit /\ [][TxNext]_vars

PollNext ==
  \/ TxMount
  \/ TxSearch
  \/ TxRefresh
  \/ TxClear
  \/ TxTick
  \/ TxVisibility
  \/ TxStorage
  \/ TxCustomEvent
  \/ TxRespondOk
  \/ TxRespondFail
  \/ TxCloseToast
  \/ TxUnmount

\* the transactions pages with the search box left empty
SpecPoll == TxInit /\ [][PollNext]_vars

\* the response to the first fetch of a page: the list the server holds
RewardRespond == TxRespondOkWith({serverTx})

\* a page that has been mounted and waits for its first response
RewardInit ==
  /\ token = TRUE
  /\ serverTx \in RewardLists
  /\ txPage \in {PageAuto, PageEmail}
  /\ txStage = "mounted"
  /\ searchQuery = <<>>
  /\ txTimers = (IF txPage = PageAuto THEN 1 ELSE 0)
  /\ txLoading = TRUE
  /\ autoRefreshing = FALSE
  /\ txToast = NoToast
  /\ txOutstanding = [fetch |-> 1, tick |-> 0]
  /\ txSent = NoRequest
  /\ txEvent = NoTxEvent
  /\ transactions = <<>>
  /\ displayAmounts = <<>>
  /\ DashOff
  /\ UserOff
  /\ OthersOff

RewardNext == RewardRespond

\* the reward display over every list the server can return
SpecReward == RewardInit /\ [][RewardNext]_vars

\* the dashboard or the user details page is opened
AdminInit ==
  /\ token \in BOOLEAN
  /\ TxOff
  /\ OthersOff
  /\ \/ /\ UserOff
        /\ dashStage = "init"
        /\ pendingUsers = <<>>
        /\ approvedUsers = <<>>
        /\ pendingOrders = <<>>
        /\ rejectedOrders = <<>>
        /\ stats = ZeroStats
        /\ dashLoading = TRUE
        /\ dashToast = NoToast
        /\ showAddPoints = NoUser
        /\ pointsAmount = <<>>
        /\ pointsDescription = ""
        /\ lastOrderIds = {}
        /\ hasLoadedOrders = FALSE
        /\ dashOutstanding = <<>>
        /\ dashSent = NoDashRequest
        /\ dashEvent = NoDashEvent
     \/ /\ DashOff
        /\ userStage = "init"
        /\ user = "NONE"
        /\ userLoading = TRUE
        /\ loadingTransactions = FALSE
        /\ userTransactions = <<>>
        /\ userToast = NoToast
        /\ addPointsReceipt = FALSE
        /\ userOutstanding = <<>>
        /\ userSent = NoDashRequest
        /\ userEvent = NoDashEvent

AdminNext ==
  \/ DashMount
  \/ DashRefresh
  \/ DashFetchOk
  \/ DashFetchFail
  \/ DashApproveUser
  \/ DashRejectUser
  \/ DashOrderStatus
  \/ DashOpenAddPoints
  \/ DashTypeAmount
  \/ DashTypeDescription
  \/ DashCancelAddPoints
  \/ DashAddPoints
  \/ DashStatusDone
  \/ DashAddPointsDone
  \/ DashCloseToast
  \/ UserMount
  \/ UserDetailsDone
  \/ UserTransactionsDone
  \/ UserAddPoints
  \/ UserAddPointsDone
  \/ UserStatusChange
  \/ UserStatusDone
  \/ UserCloseToast

\* the dashboard and the user details page
SpecAdmin == AdminInit /\ [][AdminNext]_vars

\* one page is opened, with or without a token
SiteInit ==
  \/ TxInit
  \/ AdminInit
  \/ /\ token \in BOOLEAN
     /\ TxOff /\ DashOff /\ UserOff
     /\ lastAuth = "none"
     /\ \/ RepAt("init") /\ AnnOff /\ LoginOff
        \/ RepOff /\ AnnAt("init") /\ LoginOff
        \/ RepOff /\ AnnOff /\ LoginAt("shown")

SiteNext ==
  \/ AdminNext
  \/ TxMount
  \/ TxSearch
  \/ TxRefresh
  \/ TxClear
  \/ TxTick
  \/ TxVisibility
  \/ TxStorage
  \/ TxCustomEvent
  \/ TxRespondOk
  \/ TxRespondFail
  \/ TxCloseToast
  \/ RepMount
  \/ RepSelectWeek
  \/ RepFetchDone
  \/ RepCloseToast
  \/ AnnMount
  \/ AnnFetchDone
  \/ AnnOpenCreateModal
  \/ AnnOpenEditModal
  \/ AnnCloseModal
  \/ AnnSubmit
  \/ AnnDelete
  \/ AnnToggleActive
  \/ AnnMutationDone
  \/ AnnCloseToast
  \/ LoginInputChange
  \/ LoginSubmit
  \/ LoginDone

\* every page, each on its own: the requests it sends and their answers
SpecSite == SiteInit /\ [][SiteNext]_vars

\* the login page is shown, with or without the cookie of an earlier login
SessionInit ==
  /\ token \in BOOLEAN
  /\ lastAuth = (IF token THEN "login" ELSE "none")
  /\ TxOff /\ DashOff /\ UserOff /\ RepOff /\ AnnOff
  /\ LoginAt("shown")

SessionNext ==
  \/ OpenRoute
  \/ FollowRedirect
  \/ Logout
  \/ LoginInputChange
  \/ LoginSubmit
  \/ LoginDone
  \/ DashMount
  \/ UserMount
  \/ TxMount
  \/ RepMount
  \/ AnnMount
  \/ DashFetchOk
  \/ UserDetailsDone
  \/ TxRespondOk
  \/ RepFetchDone
  \/ AnnFetchDone
  \/ TxTick
  \/ TxStorage
  \/ TxCustomEvent
  \/ TxVisibility
  \/ TxRefresh
  \/ DashRefresh
  \/ DashApproveUser
  \/ UserStatusChange
  \/ RepSelectWeek
  \/ AnnOpenCreateModal
  \/ AnnSubmit
  \/ AnnToggleActive

\* logging in, logging out, opening pages and using them
SpecSession == SessionInit /\ [][SessionNext]_vars

GateNext ==
  \/ SessionNext
  \/ TokenExpires

\* the auth gates, with a cookie that can run out while a page is shown
SpecGate == SessionInit /\ [][GateNext]_vars

(* ------------------------------------------------------------------ *)
(* Search classifier: properties                                        *)
(* ------------------------------------------------------------------ *)
Sent == txSent.trigger # "none"

Carries(k) == k \in DOMAIN txSent.params

\* the search string the request was built from, trimmed
SentQuery == Trim(txSent.query)

AllDigits(s) == s # <<>> /\ \A i \in 1..Len(s) : IsDigit(s[i])

RECURSIVE Pow10(_)
Pow10(n) == IF n = 0 THEN 1 ELSE 10 * Pow10(n - 1)

RECURSIVE DecimalValue(_)
DecimalValue(s) ==
  IF s = <<>> THEN 0
  ELSE DigitVal(Head(s)) * Pow10(Len(s) - 1) + DecimalValue(Tail(s))

\* a string of 1 to 3 digits with a positive value
ShortPositive(s) == AllDigits(s) /\ Len(s) <= 3 /\ DecimalValue(s) > 0

\* C1: every request built from a search string containing '@' carries
\* email equal to the trimmed string and neither userId nor idNumber, on
\* both transactions pages and in the auto-refresh tick.
C1_EmailOnEveryPage ==
  (Sent /\ Includes(txSent.query, "@")) =>
    /\ Carries("email")
    /\ txSent.params.email = SentQuery
    /\ ~Carries("userId")
    /\ ~Carries("idNumber")

\* C2: a trimmed search string of 1 to 3 digits with a positive value is
\* sent as userId equal to that value, without idNumber and without email.
C2_ShortDigitsAreUserId ==
  (Sent /\ ShortPositive(SentQuery)) =>
    /\ Carries("userId")
    /\ txSent.params.userId = DecimalValue(SentQuery)
    /\ ~Carries("idNumber")
    /\ ~Carries("email")

C2_Witness ==
  /\ Sent
  /\ SentQuery = <<"0", "1", "1">>
  /\ txSent.query # SentQuery
  /\ Carries("userId")
  /\ txSent.params.userId = 11

\* C3: every other non-empty trimmed search string without '@' is sent
\* as idNumber equal to the string and without userId.
C3_OtherStringsAreIdNumber ==
  (Sent /\ SentQuery # <<>> /\ ~Includes(SentQuery, "@")
        /\ ~ShortPositive(SentQuery)) =>
    /\ Carries("idNumber")
    /\ txSent.params.idNumber = SentQuery
    /\ ~Carries("userId")

C5_UpToFourDigitsAreUserId ==
  (Sent /\ AllDigits(SentQuery) /\ Len(SentQuery) <= 4
        /\ DecimalValue(SentQuery) >= 1 /\ DecimalValue(SentQuery) <= 9999) =>
    /\ Carries("userId")
    /\ ~Carries("idNumber")

(* ------------------------------------------------------------------ *)
(* Reward display: properties                                           *)
(* ------------------------------------------------------------------ *)
\* a reward transaction: ADDED, 'Weekly Sale Reward', with a figure
IsRewardTx(t) == IsWeeklyReward(t) /\ t.description.reward # NoFigure

\* positions after i holding a reward transaction of the user of row i
LaterRewards(i) ==
  {j \in (i + 1)..Len(transactions) :
     /\ transactions[j].user_id = transactions[i].user_id
     /\ IsRewardTx(transactions[j])}

Nearest(S) == CHOOSE j \in S : \A k \in S : j <= k

\* the figure to subtract from the figure of row i
PriorFigure(i) ==
  IF LaterRewards(i) = {} THEN 0
  ELSE transactions[Nearest(LaterRewards(i))].description.reward

\* d hundredths is x thousandths rounded to 2 decimals
IsRounded(d, x) == 10 * d - 5 <= x /\ x < 10 * d + 5

Rendered == Len(displayAmounts) = Len(transactions)

\* C6 as stated: every reward row shows its figure minus the figure of
\* the nearest later reward row of the same user (the figure itself when
\* there is none), rounded to 2 decimals.
C6_IncrementForEveryFigure ==
  Rendered =>
    \A i \in 1..Len(transactions) :
      IsRewardTx(transactions[i]) =>
        IsRounded(displayAmounts[i],
                  transactions[i].description.reward - PriorFigure(i))

\* C6 amended: the same for every reward row whose figure is greater
\* than 0; a reward row whose figure is 0 shows 0.
C6_IncrementForPositiveFigure ==
  Rendered =>
    \A i \in 1..Len(transactions) :
      IsRewardTx(transactions[i]) =>
        IF transactions[i].description.reward > 0
        THEN IsRounded(displayAmounts[i],
                       transactions[i].description.reward - PriorFigure(i))
        ELSE displayAmounts[i] = 0

\* a reward row, a row of another user, a reward row of another type and
\* then the prior reward row of the same user
C6_Witness ==
  /\ Rendered
  /\ Len(transactions) = 3
  /\ IsRewardTx(transactions[1])
  /\ transactions[1].description.reward = 2506
  /\ transactions[2].user_id # transactions[1].user_id
  /\ IsRewardTx(transactions[2])
  /\ transactions[3].user_id = transactions[1].user_id
  /\ IsRewardTx(transactions[3])
  /\ transactions[3].description.reward = 1250
  /\ displayAmounts[1] = 126

\* C7 as stated: a reward row with no prior reward row of the same user
\* in the list shows 0.
C7_NoPriorShowsZero ==
  Rendered =>
    \A i \in 1..Len(transactions) :
      (IsRewardTx(transactions[i]) /\ LaterRewards(i) = {}) =>
        displayAmounts[i] = 0

\* C7 amended: such a row shows its own figure rounded to 2 decimals.
C7_NoPriorShowsFigure ==
  Rendered =>
    \A i \in 1..Len(transactions) :
      (IsRewardTx(transactions[i]) /\ LaterRewards(i) = {}) =>
        IsRounded(displayAmounts[i], transactions[i].description.reward)

C7_Witness ==
  /\ Rendered
  /\ Len(transactions) = 2
  /\ IsRewardTx(transactions[1])
  /\ transactions[1].description.reward = 2506
  /\ LaterRewards(1) = {}
  /\ IsWeeklyReward(transactions[2])
  /\ displayAmounts[1] = 251

(* ------------------------------------------------------------------ *)
(* Dashboard and user details: properties                               *)
(* ------------------------------------------------------------------ *)
Unsigned(s) == IF s # <<>> /\ Head(s) \in {"+", "-"} THEN Tail(s) ELSE s

Dots(s) == {i \in 1..Len(s) : s[i] = "."}

\* s is written as a decimal number
IsNumeral(s) ==
  LET body == Unsigned(s)
  IN  /\ \A i \in 1..Len(body) : IsDigit(body[i]) \/ body[i] = "."
      /\ Cardinality(Dots(body)) <= 1
      /\ \E i \in 1..Len(body) : IsDigit(body[i])

\* the number s stands for, in thousandths
NumeralMilli(s) ==
  LET body == Unsigned(s)
      dot == IF Dots(body) = {} THEN Len(body) + 1
             ELSE CHOOSE i \in Dots(body) : TRUE
      whole == SubSeq(body, 1, dot - 1)
      frac == SubSeq(body, dot + 1, Len(body))
      sign == IF s # <<>> /\ Head(s) = "-" THEN -1 ELSE 1
  IN  sign * (DecimalValue(whole) * 1000
              + DecimalValue(frac) * Pow10(3 - Len(frac)))

\* empty, not a number, zero or negative
NotAPositiveNumber(s) ==
  s = <<>> \/ ~IsNumeral(s) \/ NumeralMilli(s) <= 0

\* an Add Points submission with this amount was handled correctly
AddPointsHandled(entered, sent, toast) ==
  /\ NotAPositiveNumber(entered) =>
       (sent = NoDashRequest /\ toast = "error")
  /\ sent.kind = "postPoints" =>
       /\ IsNumeral(entered)
       /\ sent.amount > 0
       /\ NumeralMilli(entered) = 1000 * sent.amount

\* C8: adding points with an empty, non-numeric, zero or negative amount
\* sends nothing and shows an error, and every POST /users/{id}/points
\* carries a positive integer equal to the number entered, on the
\* dashboard form and on the user details prompt.
C8_AddPointsValidated ==
  /\ (dashEvent.type = "click" /\ dashEvent.handler = "addPoints") =>
       AddPointsHandled(pointsAmount, dashSent, dashToast)
  /\ (userEvent.type = "click" /\ userEvent.handler = "addPoints") =>
       AddPointsHandled(userEvent.entered, userSent, userToast)
  /\ dashSent.kind = "postPoints" => dashEvent.handler = "addPoints"
  /\ userSent.kind = "postPoints" => userEvent.handler = "addPoints"

OrderClick(event) == event.type = "click" /\ event.handler = "orderStatus"

\* C9: a PATCH /orders/{id}/status with REJECTED is sent only by a click
\* whose confirmation dialog was accepted; a declined dialog sends
\* nothing, changes no toast and starts no refetch; a Complete click
\* sends its PATCH with no dialog.
C9_RejectOrderNeedsConfirm ==
  [][/\ (dashSent'.kind = "patchOrderStatus"
           /\ dashSent'.status = "REJECTED") =>
          /\ OrderClick(dashEvent')
          /\ dashEvent'.dialog = "accepted"
          /\ dashSent'.id = dashEvent'.id
     /\ (OrderClick(dashEvent') /\ dashEvent'.dialog = "declined") =>
          /\ dashSent' = NoDashRequest
          /\ dashToast' = dashToast
          /\ dashOutstanding' = dashOutstanding
          /\ dashLoading' = dashLoading
     /\ (OrderClick(dashEvent') /\ dashEvent'.dialog = "none") =>
          dashSent' = PatchOrderStatus(dashEvent'.id, "COMPLETED")
    ]_vars

C9_Witness ==
  /\ OrderClick(dashEvent)
  /\ dashEvent.dialog = "accepted"
  /\ dashSent = PatchOrderStatus(2, "REJECTED")
  /\ "orderStatus" \in Elems(dashOutstanding)

ApproveClick(event) == event.type = "click" /\ event.handler = "approveUser"

ApproveAnswer(event) ==
  event.type = "response" /\ event.handler = "approveUser"

\* C10: approving a pending user sends PATCH /users/{id}/status with
\* APPROVED for the id of that user and no refetch yet; fetchData is
\* issued when that PATCH succeeds and is not issued when it fails.
C10_ApproveThenRefetch ==
  [][/\ ApproveClick(dashEvent') =>
          /\ dashEvent'.id \in Elems(pendingUsers)
          /\ dashSent' = PatchUserStatus(dashEvent'.id, "APPROVED")
          /\ dashLoading' = dashLoading
     /\ ApproveAnswer(dashEvent') =>
          /\ dashEvent'.ok => dashSent'.kind = "fetchData" /\ dashLoading'
          /\ ~dashEvent'.ok =>
               /\ dashSent' = NoDashRequest
               /\ dashLoading' = dashLoading
               /\ Len(dashOutstanding') = Len(dashOutstanding) - 1
    ]_vars

C10_Witness ==
  /\ ApproveAnswer(dashEvent)
  /\ dashEvent.ok
  /\ dashSent.kind = "fetchData"
  /\ "fetchData" \in Elems(dashOutstanding)

(* ------------------------------------------------------------------ *)
(* Polling of the auto-refresh page: properties                         *)
(* ------------------------------------------------------------------ *)
InFlight == txOutstanding.fetch + txOutstanding.tick

\* the interval is running and the model can hold one more request
CanTick == txStage = "mounted" /\ txTimers > 0 /\ InFlight < MaxOutstanding

\* a step in which the interval callback issues its GET
TickAddsRequest ==
  txSent'.trigger = "tick" =>
    /\ txOutstanding'.tick = txOutstanding.tick + 1
    /\ txOutstanding'.fetch = txOutstanding.fetch

\* a step in which a list arrives
AnswerReplacesList ==
  (txEvent'.type = "response" /\ txEvent'.ok) =>
    /\ transactions' = txEvent'.list
    /\ InFlight' = InFlight - 1

\* C17: on the auto-refresh page a tick of the interval issues a new GET
\* whether or not earlier requests are outstanding, so that two or more
\* fetches can be in flight, and every answer that arrives, in whatever
\* order, replaces the displayed list.
C17_TicksOverlap ==
  /\ [](CanTick => ENABLED TxTick)
  /\ [][TickAddsRequest /\ AnswerReplacesList]_vars

\* a tick has just issued its GET while an earlier tick and an earlier
\* fetch were both outstanding
C17_Witness ==
  /\ txPage = PageAuto
  /\ txSent.trigger = "tick"
  /\ txOutstanding.tick >= 1
  /\ InFlight >= 2

(* ------------------------------------------------------------------ *)
(* Login and session: properties                                        *)
(* ------------------------------------------------------------------ *)
\* the answer to POST /auth/login handled by the latest step
LoginAnswer(event) == event.type = "response"

AdminAnswer(event) ==
  LoginAnswer(event) /\ event.ok /\ event.role = "ADMIN"

\* a step that handles the answer to POST /auth/login
LoginAnswerHandled ==
  (LoginAnswer(loginEvent') /\ loginOutstanding' < loginOutstanding) =>
    IF AdminAnswer(loginEvent')
    THEN /\ token'
         /\ loginStage' = "off"
         /\ dashStage' = "init"
    ELSE /\ token' = token
         /\ loginStage' = "shown"
         /\ dashStage' = "off"
         /\ loginEvent'.ok => loginError' = "Admin access required"

\* C11: the login page stores the token and navigates to /dashboard only
\* when the answer carries user.role = 'ADMIN'; for any other role no
\* token is stored, the login page stays and its error reads 'Admin
\* access required'.
C11_OnlyAdminLogsIn ==
  [][/\ LoginAnswerHandled
     /\ (token' /\ ~token) => AdminAnswer(loginEvent')]_vars

\* a login with correct credentials of a non-admin has just been refused
C11_Witness ==
  /\ LoginAnswer(loginEvent)
  /\ loginEvent.ok
  /\ loginEvent.role = "USER"
  /\ ~token
  /\ loginStage = "shown"
  /\ loginError = "Admin access required"

\* the mount effect of a protected page runs in this step
Mounts(stage, stageAfter) == stage = "init" /\ stageAfter \notin {"init", "off"}

\* every protected page that mounts in this step is sent to /login
MountRedirects ==
  /\ Mounts(dashStage, dashStage') => dashStage' = "login"
  /\ Mounts(userStage, userStage') => userStage' = "login"
  /\ Mounts(txStage, txStage') => txStage' = "login"
  /\ Mounts(repStage, repStage') => repStage' = "login"
  /\ Mounts(annStage, annStage') => annStage' = "login"

\* C19: over any sequence of login attempts, logouts and page mounts (the
\* expiry of the cookie aside), isAuthenticated() is true exactly when the
\* latest of the successful ADMIN logins and the logouts is a login, and
\* from a logout until the next successful ADMIN login every mount of a
\* protected page redirects to /login.
C19_SessionFollowsLogin ==
  /\ [](isAuthenticated <=> lastAuth = "login")
  /\ [][lastAuth # "login" => MountRedirects]_vars

\* after a logout a protected page has been opened and sent to /login
C19_Witness ==
  /\ lastAuth = "logout"
  /\ ~isAuthenticated
  /\ "login" \in {dashStage, userStage, txStage, repStage, annStage}

(* ------------------------------------------------------------------ *)
(* Auth gates: properties                                               *)
(* ------------------------------------------------------------------ *)
\* the latest step sent a request from a protected page
AnySent ==
  \/ txSent # NoRequest
  \/ dashSent # NoDashRequest
  \/ userSent # NoDashRequest
  \/ repSent # NoRepRequest
  \/ annSent # NoAnnRequest

\* the mount effect of some protected page runs in this step
AnyMount ==
  \/ Mounts(dashStage, dashStage')
  \/ Mounts(userStage, userStage')
  \/ Mounts(txStage, txStage')
  \/ Mounts(repStage, repStage')
  \/ Mounts(annStage, annStage')

\* C12 (as stated): a protected page that mounts without a token goes to
\* /login, and no request of any kind is issued from a protected page
\* while the token is absent.
C12_NoRequestWithoutToken ==
  [][~token => (MountRedirects /\ ~AnySent')]_vars

\* C12 (amended): a protected page that mounts without a token goes to
\* /login, its mount issues no request and starts no polling interval;
\* the token is looked at when the effects run, and not when a request is
\* issued later.
C12_MountWithoutTokenRedirects ==
  [][~token => (MountRedirects /\
                 (AnyMount => (~AnySent' /\ txTimers' = 0)))]_vars

\* the reports page has just mounted without a token: it is sent to
\* /login and has issued nothing
C12_Witness ==
  /\ ~token
  /\ repStage = "login"
  /\ repEvent.type = "mount"
  /\ repSent = NoRepRequest
  /\ repOutstanding = <<>>

(* ------------------------------------------------------------------ *)
(* Confirmation dialogs: properties                                     *)
(* ------------------------------------------------------------------ *)
RejectUserSent(sent) ==
  sent.kind = "patchUserStatus" /\ sent.status = "REJECTED"

Accepted(event, handler) ==
  event.type = "click" /\ event.handler = handler /\ event.dialog = "accepted"

Declined(event, handler) ==
  event.type = "click" /\ event.handler = handler /\ event.dialog = "declined"

\* handleRejectUser of the dashboard
RejectOnDashboardConfirmed ==
  /\ RejectUserSent(dashSent') =>
       (Accepted(dashEvent', "rejectUser") /\ dashSent'.id = dashEvent'.id)
  /\ Declined(dashEvent', "rejectUser") =>
       /\ dashSent' = NoDashRequest
       /\ UNCHANGED <<dashStage, pendingUsers, approvedUsers, pendingOrders,
                      rejectedOrders, stats, dashLoading, dashToast,
                      showAddPoints, pointsAmount, pointsDescription,
                      lastOrderIds, hasLoadedOrders, dashOutstanding>>

\* handleStatusChange of the user details page
RejectOnUserPageConfirmed ==
  /\ RejectUserSent(userSent') => Accepted(userEvent', "statusChange")
  /\ Declined(userEvent', "statusChange") =>
       /\ userSent' = NoDashRequest
       /\ UNCHANGED <<userStage, user, userLoading, loadingTransactions,
                      userTransactions, userToast, addPointsReceipt,
                      userOutstanding>>

\* handleDelete of the announcements page
DeleteAnnouncementConfirmed ==
  /\ annSent'.kind = "delete" =>
       (Accepted(annEvent', "handleDelete") /\ annSent'.id = annEvent'.id)
  /\ Declined(annEvent', "handleDelete") =>
       /\ annSent' = NoAnnRequest
       /\ UNCHANGED <<annStage, announcements, annLoading, annToast,
                      showModal, editingId, annOutstanding>>

\* C13: the request that rejects a user (dashboard and user details
\* page) and the request that deletes an announcement are sent only by a
\* click whose confirmation dialog was accepted; a declined dialog sends
\* nothing and leaves the state of the page as it was.
C13_DestructiveNeedsConfirm ==
  [][/\ RejectOnDashboardConfirmed
     /\ RejectOnUserPageConfirmed
     /\ DeleteAnnouncementConfirmed]_vars

\* the deletion of announcement 2 has been confirmed and its DELETE is
\* in flight
C13_Witness ==
  /\ Accepted(annEvent, "handleDelete")
  /\ annSent = [NoAnnRequest EXCEPT !.kind = "delete", !.id = 2]
  /\ "handleDelete" \in Elems(annOutstanding)

(* ------------------------------------------------------------------ *)
(* Failed requests: properties                                          *)
(* ------------------------------------------------------------------ *)
\* the latest step handled the failure of a request
Failed(event) == event.type = "response" /\ ~event.ok

\* C14: a step that handles a failed mutation or a failed fetch changes
\* none of the records a page holds; on the dashboard the failure of
\* fetchData leaves the four lists and the stats as they were and sets
\* the error toast (the loading flag is cleared as after a success).
C14_FailureKeepsRecords ==
  [][/\ Failed(dashEvent') =>
          /\ UNCHANGED <<pendingUsers, approvedUsers, pendingOrders,
                         rejectedOrders, stats, lastOrderIds,
                         hasLoadedOrders>>
          /\ dashToast' = "error"
     /\ Failed(userEvent') => UNCHANGED <<user, userTransactions>>
     /\ Failed(annEvent') => UNCHANGED announcements
     /\ Failed(repEvent') => UNCHANGED report
     /\ Failed(txEvent') => UNCHANGED <<transactions, displayAmounts>>
    ]_vars

\* a refetch of the dashboard has failed while its lists were filled
C14_Witness ==
  /\ Failed(dashEvent)
  /\ dashEvent.handler = "fetchData"
  /\ pendingUsers # <<>>
  /\ pendingOrders # <<>>
  /\ stats # ZeroStats
  /\ dashToast = "error"

\* the failure of POST /auth/login is handled in this step
LoginFailureHandled ==
  /\ LoginAnswer(loginEvent')
  /\ ~loginEvent'.ok
  /\ loginOutstanding' < loginOutstanding

\* the failures whose catch block only writes to the console: the
\* interval callback of the auto-refresh page and fetchUserTransactions
SilentTxFailure(event) == Failed(event) /\ event.trigger = "tick"

SilentUserFailure(event) ==
  Failed(event) /\ event.handler = "fetchUserTransactions"

\* the failures every page reports alike
FailuresReported ==
  /\ Failed(dashEvent') => dashToast' = "error"
  /\ Failed(annEvent') => annToast' = "error"
  /\ Failed(repEvent') => repToast' = "error"
  /\ LoginFailureHandled => loginError' = "Login failed"

C16_NoAutomaticRetry ==
  [][/\ Failed(dashEvent') =>
          /\ dashSent' = NoDashRequest
          /\ Len(dashOutstanding') = Len(dashOutstanding) - 1
     /\ Failed(userEvent') =>
          /\ userSent' = NoDashRequest
          /\ Len(userOutstanding') = Len(userOutstanding) - 1
     /\ Failed(annEvent') =>
          /\ annSent' = NoAnnRequest
          /\ Len(annOutstanding') = Len(annOutstanding) - 1
     /\ Failed(repEvent') =>
          /\ repSent' = NoRepRequest
          /\ Len(repOutstanding') = Len(repOutstanding) - 1
     /\ Failed(txEvent') =>
          /\ txSent' = NoRequest
          /\ InFlight' = InFlight - 1
     /\ LoginFailureHandled => loginOutstanding' = loginOutstanding - 1
    ]_vars

\* the PATCH that rejects a user has failed and nothing was sent after it
C16_Witness ==
  /\ Failed(dashEvent)
  /\ dashEvent.handler = "rejectUser"
  /\ dashSent = NoDashRequest
  /\ dashOutstanding = <<>>

(* ------------------------------------------------------------------ *)
(* Refetch after a mutation: properties                                 *)
(* ------------------------------------------------------------------ *)
Succeeded(event) == event.type = "response" /\ event.ok

DashMutations == {"approveUser", "rejectUser", "orderStatus", "addPoints"}

UserMutations == {"statusChange", "addPoints"}

AnnMutations == {"handleSubmit", "handleDelete", "toggleActive"}

\* the step that handles the answer to a mutation of the dashboard
DashMutationRefetches ==
  dashEvent'.handler \in DashMutations =>
    /\ Succeeded(dashEvent') =>
         (dashSent'.kind = "fetchData" /\ dashLoading'
            /\ Len(dashOutstanding') = Len(dashOutstanding))
    /\ Failed(dashEvent') => dashSent' = NoDashRequest

\* the step that handles the answer to a mutation of the user details page
UserMutationRefetches ==
  userEvent'.handler \in UserMutations =>
    /\ Succeeded(userEvent') =>
         (userSent'.kind = "getUser" /\ userLoading'
            /\ Len(userOutstanding') = Len(userOutstanding))
    /\ Failed(userEvent') => userSent' = NoDashRequest

\* the step that handles the answer to a mutation of the announcements
AnnMutationRefetches ==
  annEvent'.handler \in AnnMutations =>
    /\ Succeeded(annEvent') =>
         (annSent'.kind = "fetchAnnouncements" /\ annLoading'
            /\ Len(annOutstanding') = Len(annOutstanding))
    /\ Failed(annEvent') => annSent' = NoAnnRequest

\* C18: the step that handles the success of a mutation (user status on
\* the dashboard and on the user details page, add points, order status,
\* announcement create, update, delete and toggle) issues the refetch of
\* the page's data; the step that handles its failure issues none.
C18_MutationThenRefetch ==
  [][/\ DashMutationRefetches
     /\ UserMutationRefetches
     /\ AnnMutationRefetches]_vars

\* the toggle of an announcement has succeeded and the list is fetched
\* again
C18_Witness ==
  /\ annEvent = AnnResponse("toggleActive", TRUE)
  /\ annSent = [NoAnnRequest EXCEPT !.kind = "fetchAnnouncements"]
  /\ annOutstanding = <<"fetchAnnouncements">>
  /\ annLoading

(* ------------------------------------------------------------------ *)
(* Reports page: properties                                             *)
(* ------------------------------------------------------------------ *)
\* every report request has been answered, none of them with a failure
ReportsSettled ==
  /\ repStage = "mounted"
  /\ repOutstanding = <<>>
  /\ ~repFailed

\* C20: on the reports page, whatever the week selections and the order
\* of the answers, once every report request has been answered the
\* report displayed is the one requested for the selected week.
C20_ReportMatchesSelection ==
  ReportsSettled => (report.present /\ report.weekStart = selectedWeek)

(* ------------------------------------------------------------------ *)
(* Filters of the transactions requests                                 *)
(* ------------------------------------------------------------------ *)
FilterKeys == {"userId", "idNumber", "email"}

\* the filter parameters a request carries
FiltersOf(request) == DOMAIN request.params \cap FilterKeys

\* a request to /users/transactions/all was sent by the step just taken
TxRequested == txSent.trigger # "none"

\* C21: every request to /users/transactions/all carries limit=500 and at
\* most one of userId, idNumber and email, and carries none of them exactly
\* when the search string entered when the request is made is blank
C21_FilterFollowsSearch ==
  [][TxRequested' =>
       /\ txSent'.params.limit = 500
       /\ Cardinality(FiltersOf(txSent')) <= 1
       /\ (FiltersOf(txSent') = {}) <=> (Trim(searchQuery) = <<>>)]_vars

\* the step just taken was a click on Clear
Cleared == txEvent.type = "input" /\ txEvent.source = "clear"

\* C23: a click on Clear empties the search string and the fetch it issues
\* carries no userId, idNumber or email, whatever was entered before
C23_ClearFetchesUnfiltered ==
  [][Cleared' =>
       /\ searchQuery' = <<>>
       /\ TxRequested'
       /\ FiltersOf(txSent') = {}]_vars

\* the step just taken handled a visibilitychange, storage or custom event
\* by calling fetchTransactions
EventRefreshed == txEvent.type = "input" /\ txEvent.source = "listener"

\* C24: a refresh triggered by a visibilitychange, a storage event or a
\* custom event sends the filter a polling tick would send for the search
\* string entered at that moment
C24_EventRefreshUsesSearch ==
  [][EventRefreshed' =>
       /\ TxRequested'
       /\ txSent'.params = TickParams(searchQuery)]_vars

TimerNext ==
  \/ TxMount
  \/ TxType
  \/ TxClear
  \/ TxTick
  \/ TxRespondOk
  \/ TxUnmount
  \/ TokenExpires

\* a transactions page whose search string changes while the interval
\* runs and whose token cookie can expire
SpecTimer == TxInit /\ [][TimerNext]_vars

\* the interval effect ran in the step just taken: the first render or a
\* render with a changed search string
IntervalEffectRan ==
  /\ txStage' = "mounted"
  /\ txStage = "init" \/ searchQuery' # searchQuery

\* C25: at most one interval is active at any moment; a run of the
\* interval effect leaves an interval exactly when the page auto-refreshes
\* and a token is present at that run; and none is active unless the page
\* is mounted, so none after the unmount
C25_OneTimer ==
  [][/\ txTimers' <= 1
     /\ IntervalEffectRan =>
          (txTimers' = 1 <=> (txPage = PageAuto /\ token))
     /\ txStage' # "mounted" => txTimers' = 0]_vars

\* the search string was changed while an interval was running
C25_Witness ==
  /\ txStage = "mounted"
  /\ txTimers = 1
  /\ searchQuery # <<>>
  /\ txOutstanding.tick > 0

(* ------------------------------------------------------------------ *)
(* Dashboard counters, notifications and the add-points form            *)
(* ------------------------------------------------------------------ *)
\* the step just taken was a fetchData whose four GETs succeeded
DataFetched ==
  /\ dashEvent.type = "response"
  /\ dashEvent.handler = "fetchData"
  /\ dashEvent.ok

\* C26: after every successful fetchData each counter of the header equals
\* the number of records in the list it counts
C26_CountersMatchLists ==
  DataFetched =>
    /\ stats.pendingUsers = Len(pendingUsers)
    /\ stats.approvedUsers = Len(approvedUsers)
    /\ stats.pendingOrders = Len(pendingOrders)
    /\ stats.rejectedOrders = Len(rejectedOrders)

\* the lists of pending orders applyPendingOrders is applied to
PendingOrderLists == {res.orders : res \in ServerSnapshots}

\* applyPendingOrders called with either value of notify
DashApplyPendingOrders ==
  /\ dashStage = "mounted"
  /\ \E orders \in PendingOrderLists, notify \in BOOLEAN :
       LET applied == applyPendingOrders(orders, notify)
       IN  /\ pendingOrders' = applied.pendingOrders
           /\ stats' = applied.stats
           /\ lastOrderIds' = applied.lastOrderIds
           /\ hasLoadedOrders' = applied.hasLoadedOrders
           /\ dashToast' = applied.toast
           /\ dashEvent' = [type |-> "applied", notify |-> notify,
                            notified |-> applied.notified]
  /\ dashSent' = NoDashRequest
  /\ UNCHANGED <<dashStage, pendingUsers, approvedUsers, rejectedOrders,
                 dashLoading, showAddPoints, pointsAmount, pointsDescription,
                 dashOutstanding>>
  /\ UNCHANGED <<txVars, userVars, otherVars>>

OrdersInit == AdminInit /\ dashStage = "init"

OrdersNext ==
  \/ DashMount
  \/ DashRefresh
  \/ DashFetchOk
  \/ DashFetchFail
  \/ DashApplyPendingOrders
  \/ DashCloseToast

\* the dashboard with applyPendingOrders applied to every list and flag
SpecOrders == OrdersInit /\ [][OrdersNext]_vars

\* the step just taken applied a list of pending orders
Applied == dashEvent.type = "applied"

\* the ids of the list just applied that the previous list did not have
FreshIds == Ids(pendingOrders') \ lastOrderIds

\* C27: the first application raises no notification; a later one with
\* notify raises one exactly when the list has an id absent from the list
\* applied before, reporting the number of such ids; and after every
\* application the remembered ids are the ids of the list just applied
C27_NotifyOnNewOrders ==
  [][/\ Applied' =>
          /\ lastOrderIds' = Ids(pendingOrders')
          /\ ~hasLoadedOrders => dashEvent'.notified = 0
          /\ (hasLoadedOrders /\ dashEvent'.notify) =>
                dashEvent'.notified = Cardinality(FreshIds)
          /\ dashEvent'.notified > 0 => dashToast' = "info"
     /\ DataFetched' =>
          /\ lastOrderIds' = Ids(pendingOrders')
          /\ dashToast' = dashToast]_vars

\* a later application has just reported two new orders
C27_Witness ==
  /\ Applied
  /\ dashEvent.notify
  /\ dashEvent.notified = 2
  /\ dashToast = "info"

\* C22: a click on Add Points while an earlier POST /users/{id}/points is
\* still outstanding issues no second POST
C22_OnePostInFlight ==
  [][~(/\ dashSent'.kind = "postPoints"
       /\ "addPoints" \in Elems(dashOutstanding))]_vars

\* the step just taken opened the add-points form of a user while the form
\* of another user was open
SwitchedForm ==
  /\ dashEvent'.type = "click"
  /\ dashEvent'.handler = "openAddPoints"
  /\ showAddPoints # NoUser
  /\ showAddPoints # showAddPoints'

\* C30: opening the add-points form of another user starts with an empty
\* amount and an empty description
C30_FormStartsEmpty ==
  [][SwitchedForm => (pointsAmount' = <<>> /\ pointsDescription' = "")]_vars

(* ------------------------------------------------------------------ *)
(* User actions panel and the announcement modal                        *)
(* ------------------------------------------------------------------ *)
\* C29: on the user details page a status change is requested only while
\* the user shown is PENDING, and points are added only to a user shown
\* as APPROVED
C29_ActionsFollowStatus ==
  [][/\ (userEvent'.type = "click" /\ userSent'.kind = "patchUserStatus")
          => user = "PENDING"
     /\ (userEvent'.type = "click" /\ userSent'.kind = "postPoints")
          => user = "APPROVED"]_vars

\* the step just taken submitted the announcement modal
ModalSubmitted ==
  /\ annEvent'.type = "click"
  /\ annEvent'.handler = "handleSubmit"

\* C28: a submit of the modal opened to edit an announcement sends a PUT
\* for that announcement, whatever its id, and a submit of the modal opened
\* through New Announcement sends a POST
C28_SubmitUpdatesEdited ==
  [][ModalSubmitted =>
       IF editingId # NoEdit
       THEN annSent'.kind = "update" /\ annSent'.id = editingId
       ELSE annSent'.kind = "create"]_vars

====
